---- MODULE Spec2Model ----
(***************************************************************************)
(* Model of the Habitat key cache (components/core/src/crypto/keys/        *)
(* cache.rs): a directory of key files, written with write_key /           *)
(* write_pair and read back by name (latest revision) or by named          *)
(* revision.                                                               *)
(*                                                                         *)
(* Strings (names, revisions, file names) are sequences of one-character   *)
(* strings, so that the file-name construction, the glob pattern           *)
(* "<name>-*.<extension>" and the byte-wise ordering of paths are computed *)
(* the way the code computes them.                                         *)
(*                                                                         *)
(* The last sections model the utilities of the Supervisor's integration   *)
(* tests: the port claims of TestSup (components/sup/tests/utils/          *)
(* test_sup.rs), FileSystemSnapshot::modifications_since and the default   *)
(* SVC_USER / SVC_GROUP metafiles (components/sup/tests/utils/fs.rs).      *)
(***************************************************************************)
EXTENDS Integers, Sequences, FiniteSets, TLC

(***************************************************************************)
(* Bounds of the model.                                                    *)
(***************************************************************************)
\* number of write_key / write_pair calls in one behaviour
MaxWrites == 2

(***************************************************************************)
(* Characters and strings.                                                 *)
(***************************************************************************)
\* byte value of the characters used in file names (ASCII)
Ord(c) ==
    CASE c = "-" -> 45 [] c = "." -> 46
      [] c = "0" -> 48 [] c = "1" -> 49 [] c = "2" -> 50 [] c = "3" -> 51
      [] c = "4" -> 52 [] c = "5" -> 53 [] c = "6" -> 54 [] c = "7" -> 55
      [] c = "8" -> 56 [] c = "9" -> 57
      [] c = "a" -> 97 [] c = "b" -> 98 [] c = "e" -> 101 [] c = "g" -> 103
      [] c = "i" -> 105 [] c = "k" -> 107 [] c = "m" -> 109 [] c = "p" -> 112
      [] c = "s" -> 115 [] c = "u" -> 117 [] c = "x" -> 120 [] c = "y" -> 121

Digits == <<"0", "1", "2", "3", "4", "5", "6", "7", "8", "9">>

IsDigit(c) == \E i \in 1..10 : Digits[i] = c

\* Ord of std::path::Path restricted to file names of one directory:
\* byte-wise lexicographic order, a proper prefix being smaller.
PathLess(s, t) ==
    \E i \in 1..(Len(t)) :
        /\ \A j \in 1..(i - 1) : j <= Len(s) /\ s[j] = t[j]
        /\ \/ i > Len(s)
           \/ i <= Len(s) /\ Ord(s[i]) < Ord(t[i])

IsPrefix(p, s) == Len(p) <= Len(s) /\ SubSeq(s, 1, Len(p)) = p

IsSuffix(p, s) == Len(p) <= Len(s) /\ SubSeq(s, Len(s) - Len(p) + 1, Len(s)) = p

(***************************************************************************)
(* Key kinds and the KeyFile capability contract.                          *)
(***************************************************************************)
Kinds ==
    {"RingKey",
     "PublicOriginSigningKey", "SecretOriginSigningKey",
     "OriginPublicEncryptionKey", "OriginSecretEncryptionKey",
     "ServicePublicEncryptionKey", "ServiceSecretEncryptionKey",
     "UserPublicEncryptionKey", "UserSecretEncryptionKey"}

\* <K as KeyFile>::extension()
Extension(kind) ==
    CASE kind = "RingKey" -> <<"s", "y", "m", ".", "k", "e", "y">>
      [] kind = "SecretOriginSigningKey" -> <<"s", "i", "g", ".", "k", "e", "y">>
      [] kind \in {"OriginSecretEncryptionKey", "ServiceSecretEncryptionKey",
                   "UserSecretEncryptionKey"} -> <<"b", "o", "x", ".", "k", "e", "y">>
      [] OTHER -> <<"p", "u", "b">>

\* K::permissions(): the file mode the kind requires
Permissions(kind) ==
    IF kind \in {"PublicOriginSigningKey", "OriginPublicEncryptionKey",
                 "ServicePublicEncryptionKey", "UserPublicEncryptionKey"}
    THEN "public" ELSE "secret"

\* the header line that identifies the kind of a serialized key
Header(kind) == kind

\* the revisions of the model: fixed-width digit strings "01", "02", ...
Revision(i) == <<Digits[(i \div 10) + 1], Digits[(i % 10) + 1]>>

\* width of a revision (14 digits in production, two in the model)
RevWidth == Len(Revision(1))

\* the revisions in use, oldest first
Revisions == {Revision(1), Revision(2)}

LatestRevision == Revision(2)

\* key names; "a" is a prefix of "a-b" (as "core" is of "core-plans")
Names == {<<"a">>, <<"a", "-", "b">>}

\* key materials
Bodies == {"k1", "k2"}

\* the named revisions keys are generated with
NamedRevisions ==
    {nr \in [name : Names, rev : Revisions] :
        nr.name = <<"a">> \/ nr.rev = Revision(1)}

\* the kinds the operations are exercised with
KindsInUse == {"UserPublicEncryptionKey", "UserSecretEncryptionKey"}

\* the key records of a kind
KeysOf(kind) ==
    {[kind |-> kind, name |-> nr.name, rev |-> nr.rev, body |-> b] :
        nr \in NamedRevisions, b \in Bodies}

Keys == UNION {KeysOf(kind) : kind \in KindsInUse}

NoKey == [kind |-> "none", name |-> <<>>, rev |-> <<>>, body |-> ""]

\* KeyFile::named_revision
named_revision(k) == [name |-> k.name, rev |-> k.rev]

\* Display of NamedRevision: "<name>-<revision>"
NamedRevisionString(nr) == nr.name \o <<"-">> \o nr.rev

\* <K as KeyFile>::filename(named_revision): "<name>-<revision>.<extension>"
filename(kind, nr) == NamedRevisionString(nr) \o <<".">> \o Extension(kind)

\* KeyFile::own_filename
own_filename(k) == filename(k.kind, named_revision(k))

\* KeyFile::to_key_string: header, named revision, key material
to_key_string(k) ==
    [header |-> Header(k.kind), nr |-> NamedRevisionString(named_revision(k)),
     body |-> k.body]

\* content of a file that is not a well-formed key of any kind
Garbage == [header |-> "garbage", nr |-> <<>>, body |-> ""]

\* parse of "<name>-<revision>": the revision is the part after the last "-"
ParseNamedRevision(s) ==
    IF /\ Len(s) > RevWidth + 1
       /\ s[Len(s) - RevWidth] = "-"
       /\ \A i \in (Len(s) - RevWidth + 1)..Len(s) : IsDigit(s[i])
    THEN [ok |-> TRUE,
          nr |-> [name |-> SubSeq(s, 1, Len(s) - RevWidth - 1),
                  rev |-> SubSeq(s, Len(s) - RevWidth + 1, Len(s))]]
    ELSE [ok |-> FALSE, nr |-> [name |-> <<>>, rev |-> <<>>]]

\* hash::hash_string: a digest of the content; equal content gives an equal
\* digest, different content a different one
hash_string(content) == <<"blake2b", content>>

(***************************************************************************)
(* Results.  Every error of the cache itself is an Error::CryptoError      *)
(* carrying a message; I/O errors are propagated by `?`.                   *)
(***************************************************************************)
Ok == [variant |-> "Ok", msg |-> ""]

CryptoError(msg) == [variant |-> "CryptoError", msg |-> msg]

IoError(msg) == [variant |-> "IO", msg |-> msg]

NotAPair == CryptoError("Not saving key pair because they are not actually a pair!")

\* the conflict reported with an error variant of its own
HashDiffers_OwnVariant ==
    [variant |-> "Conflict",
     msg |-> "Existing key file found but new version hash is different"]

HashDiffers ==
    CryptoError("Existing key file found but new version hash is different")

NoRevisionsFound == CryptoError("No revisions found for")

KeyNotFound == CryptoError("Key not found in cache")

ParseFailure == CryptoError("Cannot parse key file")

(***************************************************************************)
(* The cache directory.  `files` maps the name of every entry of the       *)
(* directory to [type, content, mode]; it is empty while the directory     *)
(* does not exist.                                                         *)
(***************************************************************************)
VARIABLES
    dirExists,  \* the directory backing the cache exists on disk
    files,      \* entries of the cache directory, by file name
    initial,    \* the entries that were in the directory before any cache call
    pre,        \* `files` as it was when the last operation started
    last,       \* the last operation: its name, arguments and result
    written,    \* history: the keys a write_key call has returned Ok for
    twice,      \* history: "no", or the last two operations were write_key of
                \* one key and the first of them "first_ok" / "first_failed"
    nwrites,    \* number of write_key / write_pair calls so far
    procs,      \* per process: the call it is executing and how far it got
    \* the supervisor test utilities (tests/utils/test_sup.rs, tests/utils/fs.rs)
    CLAIMED_PORTS,  \* the static set of ports claimed by TestSup instances
    mutex,          \* the task holding the lock of CLAIMED_PORTS, or NoTask
    sups,           \* per test task: its TestSup and the call it is executing
    snapshots,      \* the two FileSystemSnapshot values and the exclude list
    modifications,  \* what modifications_since returned for them
    pkg,            \* the package directory under the hab root, by metafile
    pkgPre,         \* `pkg` as it was when the last call on it started
    pkgLast         \* the last call on the package directory and its result

cacheVars == <<dirExists, files, initial, pre, last, written, twice, nwrites, procs>>

portVars == <<CLAIMED_PORTS, mutex, sups>>

snapshotVars == <<snapshots, modifications>>

pkgVars == <<pkg, pkgPre, pkgLast>>

harness == <<portVars, snapshotVars, pkgVars>>

vars == <<cacheVars, harness>>

NoTask == "none"

\* no TestSup was created
PortsIdle == CLAIMED_PORTS = {} /\ mutex = NoTask /\ sups = <<>>

\* no snapshot was taken
SnapshotsIdle == snapshots = <<>> /\ modifications = <<>>

\* no package was copied under the hab root
PkgIdle == pkg = <<>> /\ pkgPre = <<>> /\ pkgLast = <<>>

\* the test utilities take no part in a run of the key cache
HarnessIdle == PortsIdle /\ SnapshotsIdle /\ PkgIdle

NoFiles == <<>>

FileEntry(content, mode) == [type |-> "file", content |-> content, mode |-> mode]

DirEntry == [type |-> "dir", content |-> Garbage, mode |-> "public"]

\* Path::exists
Exists(f, name) == name \in DOMAIN f

\* Path::is_file
IsFile(f, name) == name \in DOMAIN f /\ f[name].type = "file"

\* hash::hash_file
hash_file(f, name) == hash_string(f[name].content)

\* f with the entry `name` set to `entry`
Put(f, name, entry) == [n \in (DOMAIN f) \cup {name} |-> IF n = name THEN entry ELSE f[n]]

(***************************************************************************)
(* AtomicWriter::new_with_permissions + with_writer: stage the content in  *)
(* a temporary file of the destination's directory, then rename it over    *)
(* the destination.  Staging fails when the directory is missing, the      *)
(* rename fails when the destination is a directory; a failure leaves the  *)
(* directory as it was.                                                    *)
(***************************************************************************)
AtomicWrite(d, f, name, content, mode) ==
    IF ~d THEN [files |-> f, res |-> IoError("No such file or directory")]
    ELSE IF Exists(f, name) /\ f[name].type = "dir"
    THEN [files |-> f, res |-> IoError("Is a directory")]
    ELSE [files |-> Put(f, name, FileEntry(content, mode)), res |-> Ok]

\* f without the entries in `names`
Remove(f, names) == [n \in (DOMAIN f) \ names |-> f[n]]

\* write_key that creates the file with the default mode instead of the
\* mode of the kind (AtomicWriter::new for new_with_permissions)
write_key_DefaultPermissions(d, f, key) ==
    LET keyfile == own_filename(key)
        content == to_key_string(key)
    IN  IF IsFile(f, keyfile)
        THEN IF hash_file(f, keyfile) # hash_string(content)
             THEN [files |-> f, res |-> HashDiffers]
             ELSE [files |-> f, res |-> Ok]
        ELSE AtomicWrite(d, f, keyfile, content, "public")

\* write_key with the hash comparison inverted (== for !=)
write_key_InvertedCompare(d, f, key) ==
    LET keyfile == own_filename(key)
        content == to_key_string(key)
    IN  IF IsFile(f, keyfile)
        THEN IF hash_file(f, keyfile) = hash_string(content)
             THEN [files |-> f, res |-> HashDiffers]
             ELSE [files |-> f, res |-> Ok]
        ELSE AtomicWrite(d, f, keyfile, content, Permissions(key.kind))

\* write_key that replaces an existing file of different content
write_key_Overwrite(d, f, key) ==
    AtomicWrite(d, f, own_filename(key), to_key_string(key), Permissions(key.kind))

\* write_key that drops the older revisions of the key when it creates a file
write_key_PruneOlder(d, f, key) ==
    LET keyfile == own_filename(key)
        content == to_key_string(key)
        older == {n \in DOMAIN f :
                    /\ n # keyfile
                    /\ IsPrefix(key.name \o <<"-">>, n)
                    /\ IsSuffix(<<".">> \o Extension(key.kind), n)}
    IN  IF IsFile(f, keyfile)
        THEN IF hash_file(f, keyfile) # hash_string(content)
             THEN [files |-> f, res |-> HashDiffers]
             ELSE [files |-> f, res |-> Ok]
        ELSE AtomicWrite(d, Remove(f, older), keyfile, content, Permissions(key.kind))

(***************************************************************************)
(* KeyCache::write_key as a function of the directory: the directory       *)
(* after the call and the result of the call.                              *)
(***************************************************************************)
write_key(d, f, key) ==
    LET keyfile == own_filename(key)
        content == to_key_string(key)
    IN  IF IsFile(f, keyfile)
        THEN IF hash_file(f, keyfile) # hash_string(content)
             THEN [files |-> f, res |-> HashDiffers]
             ELSE [files |-> f, res |-> Ok]
        ELSE AtomicWrite(d, f, keyfile, content, Permissions(key.kind))

\* the two writes of write_pair with the second one left out
WriteBoth_PublicOnly(d, f, public, secret) ==
    LET w1 == write_key(d, f, public)
    IN  [files |-> w1.files, res |-> w1.res,
         okKeys |-> IF w1.res = Ok THEN {public} ELSE {}]

\* the two writes of write_pair without the `?` after the first: the secret
\* key is written whatever the public write returned
WriteBoth_SecretAnyway(d, f, public, secret) ==
    LET w1 == write_key(d, f, public)
        w2 == write_key(d, w1.files, secret)
    IN  [files |-> w2.files,
         res |-> IF w1.res # Ok THEN w1.res ELSE w2.res,
         okKeys |-> (IF w1.res = Ok THEN {public} ELSE {})
                    \cup (IF w2.res = Ok THEN {secret} ELSE {})]

\* the write_pair steps after the named-revision check
WriteBoth(d, f, public, secret) ==
    LET w1 == write_key(d, f, public)
    IN  IF w1.res # Ok
        THEN [files |-> w1.files, res |-> w1.res, okKeys |-> {}]
        ELSE LET w2 == write_key(d, w1.files, secret)
             IN  IF w2.res # Ok
                 THEN [files |-> w2.files, res |-> w2.res, okKeys |-> {public}]
                 ELSE [files |-> w2.files, res |-> Ok, okKeys |-> {public, secret}]

\* write_pair without the check that the two keys are a pair
write_pair_NoCheck(d, f, public, secret) == WriteBoth(d, f, public, secret)

\* write_pair that undoes the public write when the secret write fails
write_pair_Rollback(d, f, public, secret) ==
    IF named_revision(public) # named_revision(secret)
    THEN [files |-> f, res |-> NotAPair, okKeys |-> {}]
    ELSE LET w == WriteBoth(d, f, public, secret)
         IN  IF w.res # Ok THEN [files |-> f, res |-> w.res, okKeys |-> {}] ELSE w

(***************************************************************************)
(* KeyCache::write_pair: the named revisions must agree; then the public   *)
(* key is written, then the secret key; `?` returns the first error.       *)
(***************************************************************************)
write_pair(d, f, public, secret) ==
    IF named_revision(public) # named_revision(secret)
    THEN [files |-> f, res |-> NotAPair, okKeys |-> {}]
    ELSE WriteBoth(d, f, public, secret)

(***************************************************************************)
(* Reading.                                                                *)
(***************************************************************************)
\* glob "<name>-*" : the pattern without the extension
GlobMatches_AnyExtension(name, key_extension, fname) ==
    LET prefix == name \o <<"-">>
    IN  /\ Len(fname) >= Len(prefix)
        /\ IsPrefix(prefix, fname)

\* glob "<name>-*.<extension>" on a file name: `*` is any run of characters
GlobMatches(name, key_extension, fname) ==
    LET prefix == name \o <<"-">>
        suffix == <<".">> \o key_extension
    IN  /\ Len(fname) >= Len(prefix) + Len(suffix)
        /\ IsPrefix(prefix, fname)
        /\ IsSuffix(suffix, fname)

\* get_all_paths_for without the is_file filter
get_all_paths_for_AnyEntry(f, name, key_extension) ==
    {p \in DOMAIN f : GlobMatches(name, key_extension, p)}

\* KeyCache::get_all_paths_for: the regular files that match the pattern
get_all_paths_for(f, name, key_extension) ==
    {p \in DOMAIN f : GlobMatches(name, key_extension, p) /\ f[p].type = "file"}

\* Iterator::max over paths
MaxPath(paths) == CHOOSE p \in paths : \A q \in paths : q = p \/ PathLess(q, p)

\* try_from that does not look at the header: any well-formed key file
\* parses as a key of the kind asked for
try_from_AnyHeader(f, kind, path) ==
    IF f[path].type # "file"
    THEN [res |-> IoError("Is a directory"), key |-> NoKey]
    ELSE LET c == f[path].content
             nr == ParseNamedRevision(c.nr)
         IN  IF nr.ok
             THEN [res |-> Ok,
                   key |-> [kind |-> kind, name |-> nr.nr.name, rev |-> nr.nr.rev,
                            body |-> c.body]]
             ELSE [res |-> ParseFailure, key |-> NoKey]

\* <K as TryFrom<PathBuf>>::try_from: read the file, parse it as a key of
\* the kind; the named revision of the key is the one its content states
try_from(f, kind, path) ==
    IF f[path].type # "file"
    THEN [res |-> IoError("Is a directory"), key |-> NoKey]
    ELSE LET c == f[path].content
             nr == ParseNamedRevision(c.nr)
         IN  IF c.header = Header(kind) /\ nr.ok
             THEN [res |-> Ok,
                   key |-> [kind |-> kind, name |-> nr.nr.name, rev |-> nr.nr.rev,
                            body |-> c.body]]
             ELSE [res |-> ParseFailure, key |-> NoKey]

\* fetch_latest_revision that reports a key file that does not parse with
\* an error of its own
fetch_latest_revision_InvalidKey(f, kind, name) ==
    LET paths == get_all_paths_for(f, name, Extension(kind))
    IN  IF paths = {}
        THEN [res |-> NoRevisionsFound, key |-> NoKey]
        ELSE LET r == try_from(f, kind, MaxPath(paths))
             IN  IF r.res = ParseFailure
                 THEN [res |-> [variant |-> "InvalidKey", msg |-> "Key present, but invalid"],
                       key |-> NoKey]
                 ELSE r

\* fetch_latest_revision that falls back to the greatest revision that parses
fetch_latest_revision_Fallback(f, kind, name) ==
    LET paths == get_all_paths_for(f, name, Extension(kind))
        usable == {p \in paths : try_from(f, kind, p).res = Ok}
    IN  IF paths = {}
        THEN [res |-> NoRevisionsFound, key |-> NoKey]
        ELSE IF usable = {}
        THEN try_from(f, kind, MaxPath(paths))
        ELSE try_from(f, kind, MaxPath(usable))

\* KeyCache::fetch_latest_revision
fetch_latest_revision(f, kind, name) ==
    LET paths == get_all_paths_for(f, name, Extension(kind))
    IN  IF paths = {}
        THEN [res |-> NoRevisionsFound, key |-> NoKey]
        ELSE try_from(f, kind, MaxPath(paths))

\* fetch_specific_revision that resolves the name and ignores the revision
fetch_specific_revision_ByName(f, kind, nr) == fetch_latest_revision(f, kind, nr.name)

\* KeyCache::fetch_specific_revision
fetch_specific_revision(f, kind, nr) ==
    LET path_in_cache == filename(kind, nr)
    IN  IF Exists(f, path_in_cache)
        THEN try_from(f, kind, path_in_cache)
        ELSE [res |-> KeyNotFound, key |-> NoKey]

(***************************************************************************)
(* The state machine: one action per public operation of KeyCache.         *)
(***************************************************************************)
NoQuery == [kind |-> "none", name |-> <<>>, rev |-> <<>>]

\* the record of an operation
Op(op, res, k1, k2, query, out) ==
    [op |-> op, res |-> res, k1 |-> k1, k2 |-> k2, query |-> query, out |-> out]

\* a key file copied into the directory by other means than the cache (as the
\* tests install their fixture key)
InstalledKey ==
    [kind |-> "UserSecretEncryptionKey", name |-> <<"a">>, rev |-> Revision(1),
     body |-> "k1"]

\* A cache directory as KeyCache::new may find it: missing, empty, or holding
\* an installed key file.
InitialDirs ==
    {NoFiles,
     Put(NoFiles, own_filename(InstalledKey),
         FileEntry(to_key_string(InstalledKey), Permissions(InstalledKey.kind)))}

\* Cache directories that hold an entry which is no key file: a sub-directory
\* named like the file of a key.
ForeignDirs ==
    {Put(NoFiles,
         filename("UserSecretEncryptionKey", [name |-> <<"a">>, rev |-> LatestRevision]),
         DirEntry)}

\* the processes that share one cache directory
Procs == {"p1", "p2"}

\* a process that is not inside any call
IdleProc ==
    [pc |-> "idle", op |-> "none", k1 |-> NoKey, k2 |-> NoKey, todo |-> <<>>,
     saw |-> FALSE, tmp |-> "none", made |-> "no", wrote |-> <<>>, res |-> Ok]

InitFrom(dirs) ==
    /\ dirExists \in BOOLEAN
    /\ files \in (IF dirExists THEN dirs ELSE {NoFiles})
    /\ initial = files
    /\ pre = files
    /\ last = Op("new", Ok, NoKey, NoKey, NoQuery, NoKey)
    /\ written = {}
    /\ twice = "no"
    /\ nwrites = 0
    /\ procs = [p \in Procs |-> IdleProc]
    /\ HarnessIdle

Init == InitFrom(InitialDirs)

InitWithForeign == InitFrom(InitialDirs \cup ForeignDirs)

\* setup that creates the directory anew, whether it exists or not
Setup_Recreate ==
    /\ dirExists' = TRUE
    /\ files' = NoFiles
    /\ pre' = files
    /\ last' = Op("setup", Ok, NoKey, NoKey, NoQuery, NoKey)
    /\ twice' = "no"
    /\ UNCHANGED <<initial, harness, written, nwrites, procs>>

\* KeyCache::setup
Setup ==
    /\ dirExists' = TRUE
    /\ pre' = files
    /\ last' = Op("setup", Ok, NoKey, NoKey, NoQuery, NoKey)
    /\ twice' = "no"
    /\ UNCHANGED <<files, initial, harness, written, nwrites, procs>>

\* write_key that creates the cache directory when it is missing
WriteKey_CreatesDir(key) ==
    /\ nwrites < MaxWrites
    /\ dirExists' = TRUE
    /\ LET w == write_key(TRUE, files, key)
       IN  /\ files' = w.files
           /\ last' = Op("write_key", w.res, key, NoKey, NoQuery, NoKey)
           /\ written' = IF w.res = Ok THEN written \cup {key} ELSE written
    /\ pre' = files
    /\ twice' = IF last.op = "write_key" /\ last.k1 = key
                THEN (IF last.res = Ok THEN "first_ok" ELSE "first_failed")
                ELSE "no"
    /\ nwrites' = nwrites + 1
    /\ UNCHANGED <<initial, harness, procs>>

\* KeyCache::write_key
WriteKey(key) ==
    /\ nwrites < MaxWrites
    /\ LET w == write_key(dirExists, files, key)
       IN  /\ files' = w.files
           /\ last' = Op("write_key", w.res, key, NoKey, NoQuery, NoKey)
           /\ written' = IF w.res = Ok THEN written \cup {key} ELSE written
    /\ pre' = files
    /\ twice' = IF last.op = "write_key" /\ last.k1 = key
                THEN (IF last.res = Ok THEN "first_ok" ELSE "first_failed")
                ELSE "no"
    /\ nwrites' = nwrites + 1
    /\ UNCHANGED <<dirExists, initial, harness, procs>>

\* a call of write_pair through one of the public pair writers
\* (write_user_encryption_pair, write_service_encryption_pair,
\* write_origin_encryption_pair, write_origin_signing_pair), which all
\* delegate to it
WritePair(op, public, secret) ==
    /\ nwrites < MaxWrites
    /\ LET w == write_pair(dirExists, files, public, secret)
       IN  /\ files' = w.files
           /\ last' = Op(op, w.res, public, secret, NoQuery, NoKey)
           /\ written' = written \cup w.okKeys
    /\ pre' = files
    /\ twice' = "no"
    /\ nwrites' = nwrites + 1
    /\ UNCHANGED <<dirExists, initial, harness, procs>>

\* KeyCache::write_user_encryption_pair
WriteUserEncryptionPair(public, secret) ==
    WritePair("write_user_encryption_pair", public, secret)

\* fetch_latest_revision that makes sure the directory exists before it
\* looks for the key
FetchLatestRevision_SetsUp(kind, name) ==
    /\ LET r == fetch_latest_revision(files, kind, name)
       IN  last' = Op("fetch_latest_revision", r.res, NoKey, NoKey,
                      [kind |-> kind, name |-> name, rev |-> <<>>], r.key)
    /\ dirExists' = TRUE
    /\ pre' = files
    /\ twice' = "no"
    /\ UNCHANGED <<files, initial, harness, written, nwrites, procs>>

\* KeyCache::fetch_latest_revision::<kind>(name)
FetchLatestRevision(kind, name) ==
    /\ LET r == fetch_latest_revision(files, kind, name)
       IN  last' = Op("fetch_latest_revision", r.res, NoKey, NoKey,
                      [kind |-> kind, name |-> name, rev |-> <<>>], r.key)
    /\ pre' = files
    /\ twice' = "no"
    /\ UNCHANGED <<dirExists, files, initial, harness, written, nwrites, procs>>

\* KeyCache::fetch_specific_revision::<kind>(named_revision)
FetchSpecificRevision(kind, nr) ==
    /\ LET r == fetch_specific_revision(files, kind, nr)
       IN  last' = Op("fetch_specific_revision", r.res, NoKey, NoKey,
                      [kind |-> kind, name |-> nr.name, rev |-> nr.rev], r.key)
    /\ pre' = files
    /\ twice' = "no"
    /\ UNCHANGED <<dirExists, files, initial, harness, written, nwrites, procs>>

Next ==
    \/ Setup
    \/ \E key \in Keys : WriteKey(key)
    \/ \E public \in KeysOf("UserPublicEncryptionKey"),
          secret \in KeysOf("UserSecretEncryptionKey") :
            WriteUserEncryptionPair(public, secret)
    \/ \E kind \in KindsInUse, name \in Names : FetchLatestRevision(kind, name)
    \/ \E kind \in KindsInUse, nr \in NamedRevisions : FetchSpecificRevision(kind, nr)

Spec == Init /\ [][Next]_vars

\* the same operations on directories that may also hold foreign entries
SpecWithForeign == InitWithForeign /\ [][Next]_vars

(***************************************************************************)
(* Concurrent callers.  The processes share one cache directory and each   *)
(* runs one write_key or write_pair call.  A step is one access to the     *)
(* file system, so the steps of the two calls interleave freely.  A        *)
(* process record holds: pc, the next step; op, k1, k2, the call and its   *)
(* arguments; todo, the keys the call still has to write, the one being    *)
(* written first; saw, what keyfile.is_file() answered; tmp, how much of   *)
(* the content is in the temporary file; made, whether the last write of   *)
(* the call "created" or "replaced" the destination; wrote, the keys       *)
(* write_key has returned Ok for inside this call; res, the result.        *)
(***************************************************************************)
\* the keys the concurrent callers write
ConcKeys == {k \in Keys : k.name = <<"a">>}

\* the bytes of `content` that are on disk while the rest is still to be written
Truncated(content) == [content EXCEPT !.body = ""]

\* write_pair with the two write_key calls in the other order
write_pair_order_SecretFirst(public, secret) == <<secret, public>>

\* write_pair: self.write_key(public)?; self.write_key(secret)?;
write_pair_order(public, secret) == <<public, secret>>

\* write_key: keyfile.is_file()
keyfile_is_file(f, key) == IsFile(f, own_filename(key))

\* the comparison of compare_hashes inverted (== for !=)
compare_hashes_Inverted(f, key) ==
    IF hash_file(f, own_filename(key)) = hash_string(to_key_string(key))
    THEN HashDiffers
    ELSE Ok

\* write_key, the branch of an existing file: hash the file, hash the content,
\* compare
compare_hashes(f, key) ==
    IF hash_file(f, own_filename(key)) # hash_string(to_key_string(key))
    THEN HashDiffers
    ELSE Ok

\* write_key: AtomicWriter::new_with_permissions(&keyfile, K::permissions())
\* creates the temporary file in the directory of the destination
new_with_permissions(d, key) ==
    IF d THEN Ok ELSE IoError("No such file or directory")

\* write_all writing to the destination path itself
write_all_InPlace(f, key, tmp) ==
    Put(f, own_filename(key),
        FileEntry(IF tmp = "empty" THEN Truncated(to_key_string(key))
                  ELSE to_key_string(key),
                  Permissions(key.kind)))

\* write_key: w.with_writer(|f| f.write_all(content)); the bytes go to the
\* temporary file, the directory entries stay as they are
write_all(f, key, tmp) == f

\* a publish that refuses to replace an existing file
persist_NoClobber(d, f, key) ==
    IF Exists(f, own_filename(key))
    THEN [files |-> f, res |-> IoError("File exists")]
    ELSE AtomicWrite(d, f, own_filename(key), to_key_string(key),
                     Permissions(key.kind))

\* write_key: the end of with_writer renames the temporary file over the
\* destination, whatever is there by now
persist(d, f, key) ==
    AtomicWrite(d, f, own_filename(key), to_key_string(key), Permissions(key.kind))

\* the key process record pr is writing
Cur(pr) == Head(pr.todo)

\* write_key returns r to its caller: write_pair goes on with the next key
\* when r is Ok (the `?` of cache.rs:100-101), otherwise the call returns r
Return(pr, r) ==
    IF r = Ok /\ Len(pr.todo) > 1
    THEN [pr EXCEPT !.pc = "check", !.todo = Tail(pr.todo), !.saw = FALSE,
                    !.tmp = "none", !.wrote = Append(pr.wrote, Cur(pr))]
    ELSE [pr EXCEPT !.pc = "done", !.res = r, !.tmp = "none",
                    !.wrote = IF r = Ok THEN Append(pr.wrote, Cur(pr))
                              ELSE pr.wrote]

ConcFrame == UNCHANGED <<dirExists, initial, harness, pre, last, written, twice, nwrites>>

\* process p calls write_key(key)
CallWriteKey(p, key) ==
    /\ procs[p].pc = "idle"
    /\ procs' = [procs EXCEPT ![p] =
                    [IdleProc EXCEPT !.pc = "check", !.op = "write_key",
                                     !.k1 = key, !.todo = <<key>>]]
    /\ UNCHANGED files
    /\ ConcFrame

\* process p calls write_pair(public, secret): the check of the named
\* revisions touches no file
CallWritePair(p, public, secret) ==
    /\ procs[p].pc = "idle"
    /\ procs' = [procs EXCEPT ![p] =
                    IF named_revision(public) # named_revision(secret)
                    THEN [IdleProc EXCEPT !.pc = "done", !.op = "write_pair",
                                          !.k1 = public, !.k2 = secret,
                                          !.res = NotAPair]
                    ELSE [IdleProc EXCEPT !.pc = "check", !.op = "write_pair",
                                          !.k1 = public, !.k2 = secret,
                                          !.todo = write_pair_order(public, secret)]]
    /\ UNCHANGED files
    /\ ConcFrame

\* write_key of p: if keyfile.is_file()
StepIsFile(p) ==
    /\ procs[p].pc = "check"
    /\ LET saw == keyfile_is_file(files, Cur(procs[p]))
       IN  procs' = [procs EXCEPT ![p].saw = saw,
                                  ![p].pc = IF saw THEN "hash" ELSE "stage",
                                  ![p].made = "no"]
    /\ UNCHANGED files
    /\ ConcFrame

\* write_key of p: the hashes are compared and write_key returns
StepCompareHashes(p) ==
    /\ procs[p].pc = "hash"
    /\ procs' = [procs EXCEPT ![p] =
                    Return(procs[p], compare_hashes(files, Cur(procs[p])))]
    /\ UNCHANGED files
    /\ ConcFrame

\* write_key of p: the atomic writer is created
StepNewWriter(p) ==
    /\ procs[p].pc = "stage"
    /\ LET r == new_with_permissions(dirExists, Cur(procs[p]))
       IN  procs' = [procs EXCEPT ![p] =
                        IF r = Ok
                        THEN [procs[p] EXCEPT !.pc = "write", !.tmp = "empty"]
                        ELSE Return(procs[p], r)]
    /\ UNCHANGED files
    /\ ConcFrame

\* write_key of p: write_all writes the content, in two pieces
StepWriteAll(p) ==
    /\ procs[p].pc = "write"
    /\ files' = write_all(files, Cur(procs[p]), procs[p].tmp)
    /\ procs' = [procs EXCEPT ![p] =
                    IF procs[p].tmp = "empty"
                    THEN [procs[p] EXCEPT !.tmp = "partial"]
                    ELSE [procs[p] EXCEPT !.tmp = "full", !.pc = "persist"]]
    /\ ConcFrame

\* write_key of p: the temporary file is published and write_key returns
StepPersist(p) ==
    /\ procs[p].pc = "persist"
    /\ LET key == Cur(procs[p])
           w == persist(dirExists, files, key)
           made == IF w.res # Ok THEN "no"
                   ELSE IF IsFile(files, own_filename(key)) THEN "replaced"
                   ELSE "created"
       IN  /\ files' = w.files
           /\ procs' = [procs EXCEPT ![p] =
                           Return([procs[p] EXCEPT !.made = made], w.res)]
    /\ ConcFrame

NextConc ==
    \/ \E p \in Procs, key \in ConcKeys : CallWriteKey(p, key)
    \/ \E p \in Procs, public \in KeysOf("UserPublicEncryptionKey") \cap ConcKeys,
          secret \in KeysOf("UserSecretEncryptionKey") \cap ConcKeys :
            CallWritePair(p, public, secret)
    \/ \E p \in Procs : StepIsFile(p)
    \/ \E p \in Procs : StepCompareHashes(p)
    \/ \E p \in Procs : StepNewWriter(p)
    \/ \E p \in Procs : StepWriteAll(p)
    \/ \E p \in Procs : StepPersist(p)

\* two processes, each running one write on a shared cache directory
SpecConc == InitWithForeign /\ [][NextConc]_vars

(***************************************************************************)
(* Kinds that share an extension.  A public origin signing key and a       *)
(* public origin encryption key of one name and revision have the same     *)
(* file name (cache.rs:109-136); the operations are the same, called with  *)
(* keys of these two kinds.                                                *)
(***************************************************************************)
OriginKinds == {"PublicOriginSigningKey", "OriginPublicEncryptionKey"}

OriginKeys == UNION {KeysOf(kind) : kind \in OriginKinds}

\* Cache directories that hold a file named like a key whose content is no
\* key at all.
UnusableDirs ==
    {Put(NoFiles,
         filename("PublicOriginSigningKey", [name |-> <<"a">>, rev |-> LatestRevision]),
         FileEntry(Garbage, "public"))}

InitOrigin == InitFrom({NoFiles} \cup UnusableDirs)

NextOrigin ==
    \/ Setup
    \/ \E key \in OriginKeys : WriteKey(key)
    \/ \E kind \in OriginKinds, name \in Names : FetchLatestRevision(kind, name)
    \/ \E kind \in OriginKinds, nr \in NamedRevisions : FetchSpecificRevision(kind, nr)

SpecOrigin == InitOrigin /\ [][NextOrigin]_vars

(***************************************************************************)
(* Several KeyCache values on one directory.  KeyCache is a tuple struct   *)
(* around the path (cache.rs:24-25); KeyCache::new(path) twice, or clone,  *)
(* gives values that are equal.  Each operation is called through one of   *)
(* the values, recorded in the field `via` of `last`.                      *)
(***************************************************************************)
Handles == {"cache", "clone"}

\* the path every KeyCache value of the model is built from
CachePath == "cache_dir"

\* KeyCache::new(path), #[derive(Clone)]
KeyCacheValue(h) == [path |-> CachePath]

OpVia(h, op, res, k1, k2, query, out) ==
    [via |-> h] @@ Op(op, res, k1, k2, query, out)

\* a KeyCache value that keeps the listing of the directory it saw at the
\* last operation made through it
Directory_Snapshot(h) == IF last.via = h THEN files ELSE pre

\* the entries of the directory an operation through the value h works on:
\* those on disk at KeyCacheValue(h).path, read anew by every operation
Directory(h) == files

InitHandles ==
    /\ dirExists \in BOOLEAN
    /\ files \in (IF dirExists THEN InitialDirs ELSE {NoFiles})
    /\ initial = files
    /\ pre = files
    /\ last = OpVia("cache", "new", Ok, NoKey, NoKey, NoQuery, NoKey)
    /\ written = {}
    /\ twice = "no"
    /\ nwrites = 0
    /\ procs = [p \in Procs |-> IdleProc]
    /\ HarnessIdle

\* h.setup()
SetupVia(h) ==
    /\ dirExists' = TRUE
    /\ pre' = files
    /\ last' = OpVia(h, "setup", Ok, NoKey, NoKey, NoQuery, NoKey)
    /\ UNCHANGED <<files, initial, harness, written, twice, nwrites, procs>>

\* h.write_key(key)
WriteKeyVia(h, key) ==
    /\ nwrites < MaxWrites
    /\ LET w == write_key(dirExists, Directory(h), key)
       IN  /\ files' = w.files
           /\ last' = OpVia(h, "write_key", w.res, key, NoKey, NoQuery, NoKey)
           /\ written' = IF w.res = Ok THEN written \cup {key} ELSE written
    /\ pre' = files
    /\ nwrites' = nwrites + 1
    /\ UNCHANGED <<dirExists, initial, harness, twice, procs>>

\* h.write_user_encryption_pair(public, secret)
WritePairVia(h, public, secret) ==
    /\ nwrites < MaxWrites
    /\ LET w == write_pair(dirExists, Directory(h), public, secret)
       IN  /\ files' = w.files
           /\ last' = OpVia(h, "write_user_encryption_pair", w.res, public, secret,
                            NoQuery, NoKey)
           /\ written' = written \cup w.okKeys
    /\ pre' = files
    /\ nwrites' = nwrites + 1
    /\ UNCHANGED <<dirExists, initial, harness, twice, procs>>

\* h.fetch_latest_revision::<kind>(name)
FetchLatestRevisionVia(h, kind, name) ==
    /\ LET r == fetch_latest_revision(Directory(h), kind, name)
       IN  last' = OpVia(h, "fetch_latest_revision", r.res, NoKey, NoKey,
                         [kind |-> kind, name |-> name, rev |-> <<>>], r.key)
    /\ pre' = files
    /\ UNCHANGED <<dirExists, files, initial, harness, written, twice, nwrites, procs>>

\* h.fetch_specific_revision::<kind>(named_revision)
FetchSpecificRevisionVia(h, kind, nr) ==
    /\ LET r == fetch_specific_revision(Directory(h), kind, nr)
       IN  last' = OpVia(h, "fetch_specific_revision", r.res, NoKey, NoKey,
                         [kind |-> kind, name |-> nr.name, rev |-> nr.rev], r.key)
    /\ pre' = files
    /\ UNCHANGED <<dirExists, files, initial, harness, written, twice, nwrites, procs>>

NextHandles ==
    \/ \E h \in Handles : SetupVia(h)
    \/ \E h \in Handles, key \in ConcKeys : WriteKeyVia(h, key)
    \/ \E h \in Handles, public \in KeysOf("UserPublicEncryptionKey") \cap ConcKeys,
          secret \in KeysOf("UserSecretEncryptionKey") \cap ConcKeys :
            WritePairVia(h, public, secret)
    \/ \E h \in Handles, kind \in KindsInUse, name \in Names :
            FetchLatestRevisionVia(h, kind, name)
    \/ \E h \in Handles, kind \in KindsInUse, nr \in NamedRevisions :
            FetchSpecificRevisionVia(h, kind, nr)

\* the operations of the cache called through two KeyCache values of one path
SpecHandles == InitHandles /\ [][NextHandles]_vars

(***************************************************************************)
(* A reader next to a writer.  fetch_latest_revision takes two accesses to *)
(* the file system: the glob that lists the matching regular files, and    *)
(* the read of the file at the greatest path.  A process in such a call    *)
(* has, besides the fields of IdleProc: query, the kind and name asked     *)
(* for; before, what the call would return on the directory as it was at   *)
(* the call; paths, what the glob found; out, the key returned.            *)
(***************************************************************************)
ReaderProc(kind, name, before) ==
    [query |-> [kind |-> kind, name |-> name, rev |-> <<>>],
     before |-> before, paths |-> {}, out |-> NoKey]
    @@ [IdleProc EXCEPT !.pc = "glob", !.op = "fetch_latest_revision"]

\* process p calls fetch_latest_revision::<kind>(name)
CallFetchLatestRevision(p, kind, name) ==
    /\ procs[p].pc = "idle"
    /\ procs' = [procs EXCEPT ![p] =
                    ReaderProc(kind, name, fetch_latest_revision(files, kind, name))]
    /\ UNCHANGED files
    /\ ConcFrame

\* fetch_latest_revision of p: get_latest_path_for lists the directory; with
\* no match the call returns the error
StepGlob(p) ==
    /\ procs[p].pc = "glob"
    /\ LET paths == get_all_paths_for(files, procs[p].query.name,
                                      Extension(procs[p].query.kind))
       IN  procs' = [procs EXCEPT ![p] =
                        IF paths = {}
                        THEN [procs[p] EXCEPT !.pc = "done", !.res = NoRevisionsFound]
                        ELSE [procs[p] EXCEPT !.pc = "read", !.paths = paths]]
    /\ UNCHANGED files
    /\ ConcFrame

\* fetch_latest_revision of p: K::try_from reads the file at the greatest
\* path and the call returns
StepTryFrom(p) ==
    /\ procs[p].pc = "read"
    /\ LET r == try_from(files, procs[p].query.kind, MaxPath(procs[p].paths))
       IN  procs' = [procs EXCEPT ![p] =
                        [procs[p] EXCEPT !.pc = "done", !.res = r.res, !.out = r.key]]
    /\ UNCHANGED files
    /\ ConcFrame

NextConcRead ==
    \/ \E p \in Procs, key \in ConcKeys : CallWriteKey(p, key)
    \/ \E p \in Procs : StepIsFile(p)
    \/ \E p \in Procs : StepCompareHashes(p)
    \/ \E p \in Procs : StepNewWriter(p)
    \/ \E p \in Procs : StepWriteAll(p)
    \/ \E p \in Procs : StepPersist(p)
    \/ \E p \in Procs, kind \in KindsInUse : CallFetchLatestRevision(p, kind, <<"a">>)
    \/ \E p \in Procs : StepGlob(p)
    \/ \E p \in Procs : StepTryFrom(p)

\* two processes on a shared cache directory, each running one write_key or
\* one fetch_latest_revision
SpecConcRead == InitWithForeign /\ [][NextConcRead]_vars

(***************************************************************************)
(* Vocabulary of the properties.                                           *)
(***************************************************************************)
PairOps ==
    {"write_user_encryption_pair", "write_service_encryption_pair",
     "write_origin_encryption_pair", "write_origin_signing_pair"}

\* the file of key k is in the directory f and holds k's serialized content
Saved(f, k) ==
    IsFile(f, own_filename(k)) /\ f[own_filename(k)].content = to_key_string(k)

\* every entry of f is in g, unchanged
Preserved(f, g) == \A n \in DOMAIN f : n \in DOMAIN g /\ g[n] = f[n]

\* the error kinds of the specification, as the code reports them
IsConflict(res) == res = HashDiffers

IsPairMismatch(res) == res = NotAPair

IsNotFound(res) == res \in {NoRevisionsFound, KeyNotFound, ParseFailure}

IsIoFailure(res) == res.variant = "IO"

\* fname is "<name>-<revision>.<extension>" for some revision
IsRevisionOf(fname, name, key_extension) ==
    /\ GlobMatches(name, key_extension, fname)
    /\ Len(fname) = Len(name) + 1 + RevWidth + 1 + Len(key_extension)
    /\ \A i \in (Len(name) + 2)..(Len(name) + 1 + RevWidth) : IsDigit(fname[i])

\* f restricted to the entry `name`
Only(f, name) == [n \in (DOMAIN f) \cap {name} |-> f[n]]

(***************************************************************************)
(* C1.  As stated: whenever write_key(k) is called twice in a row, in any  *)
(* state of an existing cache directory, both calls succeed and the second *)
(* changes nothing.  Refuted: a cache that holds other content at k's file *)
(* name makes both calls fail.                                             *)
(***************************************************************************)
C1_AsStated ==
    (twice # "no" /\ dirExists)
    => (twice = "first_ok" /\ last.res = Ok /\ files = pre)

\* C1 (amended): when write_key(k) succeeds, an immediately following
\* write_key(k) succeeds too, creates and changes nothing, and the file of k
\* holds k's serialized content as it did after the first call.
C1_Idempotent ==
    twice = "first_ok" =>
        /\ last.res = Ok
        /\ files = pre
        /\ Saved(pre, last.k1)
        /\ Saved(files, last.k1)

C1_Witness == twice = "first_ok" /\ last.op = "write_key" /\ last.res = Ok

(***************************************************************************)
(* C2.  After write_key(k1) has succeeded, write_key(k2) of a key with the *)
(* same file name and different content returns the conflict error, the    *)
(* file still holds k1's content and no entry of the directory is created  *)
(* or changed.                                                             *)
(***************************************************************************)
C2_Conflict ==
    \A k1 \in written :
        (/\ last.op = "write_key"
         /\ own_filename(k1) = own_filename(last.k1)
         /\ to_key_string(k1) # to_key_string(last.k1))
        => /\ IsConflict(last.res)
           /\ Saved(files, k1)
           /\ files = pre

C2_Witness ==
    /\ last.op = "write_key"
    /\ IsConflict(last.res)
    /\ \E k1 \in written :
          /\ own_filename(k1) = own_filename(last.k1)
          /\ to_key_string(k1) # to_key_string(last.k1)

(***************************************************************************)
(* C3.  write_pair of a public and a secret key whose named revisions      *)
(* differ returns the pair-mismatch error and leaves the directory as it   *)
(* was: no entry is created or changed, in any cache state.                *)
(***************************************************************************)
C3_PairMismatch ==
    (last.op \in PairOps /\ named_revision(last.k1) # named_revision(last.k2))
    => /\ IsPairMismatch(last.res)
       /\ files = pre
       /\ ~Saved(files, last.k1) \/ Saved(pre, last.k1)
       /\ ~Saved(files, last.k2) \/ Saved(pre, last.k2)

C3_Witness ==
    /\ last.op \in PairOps
    /\ named_revision(last.k1) # named_revision(last.k2)
    /\ IsPairMismatch(last.res)
    /\ dirExists
    /\ ~Exists(files, own_filename(last.k1))
    /\ ~Exists(files, own_filename(last.k2))

(***************************************************************************)
(* C4.  No operation updates, truncates, overwrites or removes an entry of *)
(* the directory: every entry present before an operation is present       *)
(* after it with the same content, so the entries found at construction    *)
(* and the files of all keys written since are still there, unchanged.     *)
(***************************************************************************)
C4_NeverChanges ==
    /\ Preserved(pre, files)
    /\ Preserved(initial, files)
    /\ \A k \in written : Saved(files, k)

\* a write has been refused on a file that exists, after another file was
\* created
C4_Witness ==
    /\ last.op = "write_key"
    /\ IsConflict(last.res)
    /\ Cardinality(DOMAIN files) >= 2

(***************************************************************************)
(* C5.  As stated: when keys of a kind and a name have been written, with  *)
(* whatever revisions and in whatever order, fetch_latest_revision for     *)
(* that kind and name returns the written key of the greatest revision.    *)
(* Refuted by the code: the glob of get_all_paths_for also matches the     *)
(* files of a longer name ("a-b" for "a"), and the greatest path wins.     *)
(***************************************************************************)
C5_LatestIsGreatestWritten ==
    LET W == {k \in written : k.kind = last.query.kind /\ k.name = last.query.name}
    IN  (last.op = "fetch_latest_revision" /\ W # {})
        => /\ last.res = Ok
           /\ last.out \in W
           /\ \A k \in W : k.rev = last.out.rev \/ PathLess(k.rev, last.out.rev)

(***************************************************************************)
(* C6.  fetch_specific_revision(kind, nr) returns the key written under nr *)
(* for the kind; in a cache filled by the cache alone it fails with the    *)
(* not-found error for a named revision never written; and its result is   *)
(* the one it gives on a directory holding only the file                   *)
(* "<name>-<revision>.<extension>".                                        *)
(***************************************************************************)
C6_ReadSpecific ==
    LET nr == [name |-> last.query.name, rev |-> last.query.rev]
        W == {k \in written : k.kind = last.query.kind /\ named_revision(k) = nr}
        alone == fetch_specific_revision(
                     Only(files, filename(last.query.kind, nr)), last.query.kind, nr)
    IN  last.op = "fetch_specific_revision"
        => /\ W # {} => (last.res = Ok /\ W = {last.out})
           /\ (W = {} /\ initial = NoFiles) => (IsNotFound(last.res) /\ last.out = NoKey)
           /\ last.res = alone.res /\ last.out = alone.key

\* a specific revision has been read back while a later revision of the key
\* is in the cache
C6_Witness ==
    /\ last.op = "fetch_specific_revision"
    /\ last.res = Ok
    /\ last.out \in written
    /\ \E k \in written :
          /\ k.kind = last.out.kind
          /\ k.name = last.out.name
          /\ PathLess(last.out.rev, k.rev)

(***************************************************************************)
(* C7.  As stated: fetch_latest_revision(kind, name) fails with the        *)
(* not-found error whenever the directory holds no regular file            *)
(* "<name>-<revision>.<extension>" of that name and that kind's extension. *)
(* Refuted by the code: a file of the longer name "a-b" is found for "a".  *)
(***************************************************************************)
C7_NotFoundWhenNoFile ==
    (/\ last.op = "fetch_latest_revision"
     /\ ~\E n \in DOMAIN files :
           /\ files[n].type = "file"
           /\ IsRevisionOf(n, last.query.name, Extension(last.query.kind)))
    => (IsNotFound(last.res) /\ last.out = NoKey)

(***************************************************************************)
(* C8.  Older revisions stay valid: every key that has been written is     *)
(* returned by fetch_specific_revision for its kind and named revision in  *)
(* every later state, whatever has been written since.                     *)
(***************************************************************************)
C8_OlderRevisionsStay ==
    \A k \in written :
        fetch_specific_revision(files, k.kind, named_revision(k)) = [res |-> Ok, key |-> k]

\* a key has been written after another revision of the same name
C8_Witness ==
    /\ last.op = "write_key"
    /\ last.res = Ok
    /\ ~Saved(pre, last.k1)
    /\ \E k \in written :
          /\ k.name = last.k1.name
          /\ k.rev # last.k1.rev
          /\ Saved(pre, k)

(***************************************************************************)
(* C9.  As documented on write_user_encryption_pair: when the call         *)
(* returns, either both keys of the pair are saved or the call has saved   *)
(* nothing.  Refuted by the code: write_pair returns the error of the      *)
(* secret write and leaves the public file it has just created.            *)
(***************************************************************************)
C9_AllOrNothing ==
    last.op \in PairOps
    => \/ Saved(files, last.k1) /\ Saved(files, last.k2)
       \/ files = pre

(***************************************************************************)
(* C10.  write_pair is not transactional: when the write of the public key *)
(* succeeds and the write of the secret key fails, write_pair returns the  *)
(* error of the secret write and the directory is as the public write left *)
(* it: the public file is there, nothing is rolled back.                   *)
(***************************************************************************)
C10_NoRollback ==
    LET w1 == write_key(dirExists, pre, last.k1)
        w2 == write_key(dirExists, w1.files, last.k2)
    IN  (/\ last.op \in PairOps
         /\ named_revision(last.k1) = named_revision(last.k2)
         /\ w1.res = Ok
         /\ w2.res # Ok)
        => /\ last.res = w2.res
           /\ IsConflict(last.res) \/ IsIoFailure(last.res)
           /\ Saved(files, last.k1)
           /\ ~Saved(files, last.k2)
           /\ files = w1.files

\* only the public half of a pair is in the cache: the call created it and
\* failed on the secret half
C10_Witness ==
    /\ last.op \in PairOps
    /\ IsConflict(last.res) \/ IsIoFailure(last.res)
    /\ ~Exists(pre, own_filename(last.k1))
    /\ Saved(files, last.k1)
    /\ ~Saved(files, last.k2)

(***************************************************************************)
(* Vocabulary of the properties of concurrent callers.                     *)
(***************************************************************************)
\* process record pr is inside a write_key of key k (its own call or a
\* write_key of its write_pair call)
Writing(pr, k) == pr.pc \notin {"idle", "done"} /\ Cur(pr) = k

\* process record pr is a finished call of write_key(k)
FinishedWriteKey(pr, k) == pr.pc = "done" /\ pr.op = "write_key" /\ pr.k1 = k

(***************************************************************************)
(* C11.  write_pair writes the public key before the secret key: in every  *)
(* state of every interleaving, a write_pair call that is writing its      *)
(* secret key, or has written it, has had Ok from the write_key of its     *)
(* public key before, and the public file is in the directory; so the      *)
(* secret file of a pair is never created while the public file is absent. *)
(***************************************************************************)
C11_PublicBeforeSecret ==
    \A p \in Procs :
        LET pr == procs[p]
        IN  (pr.op = "write_pair" /\ pr.todo # <<>> /\ Cur(pr) = pr.k2)
            => /\ pr.wrote # <<>>
               /\ Head(pr.wrote) = pr.k1
               /\ IsFile(files, own_filename(pr.k1))

\* a write_pair call has created its secret file while the other process is
\* in the middle of a call
C11_Witness ==
    \E p \in Procs, q \in Procs :
        /\ p # q
        /\ procs[p].op = "write_pair"
        /\ procs[p].pc = "done"
        /\ procs[p].res = Ok
        /\ procs[p].made = "created"
        /\ Cur(procs[p]) = procs[p].k2
        /\ procs[q].pc \notin {"idle", "done"}

\* the cache directory exists and held, before any call, either nothing at
\* the file name of k or a file with the content of k
FreeFor(k) ==
    /\ dirExists
    /\ \/ ~Exists(initial, own_filename(k))
       \/ Saved(initial, k)

(***************************************************************************)
(* C12.  Two processes call write_key with the same key (same file name,   *)
(* same content) on a cache directory that does not hold other content at  *)
(* that name: however their is_file, hash and publish steps interleave,    *)
(* both calls return Ok and the file holds the content of the key.         *)
(***************************************************************************)
C12_SameContentBothSucceed ==
    \A k \in ConcKeys :
        (/\ FreeFor(k)
         /\ \A p \in Procs : FinishedWriteKey(procs[p], k))
        => /\ \A p \in Procs : procs[p].res = Ok
           /\ Saved(files, k)

\* both calls have returned, both found no file at their check: one created
\* the file and the other replaced it with the same content
C12_Witness ==
    \E k \in ConcKeys, p \in Procs, q \in Procs :
        /\ FreeFor(k)
        /\ FinishedWriteKey(procs[p], k) /\ FinishedWriteKey(procs[q], k)
        /\ procs[p].made = "created" /\ procs[q].made = "replaced"
        /\ procs[p].res = Ok /\ procs[q].res = Ok
        /\ Saved(files, k)

\* one call has returned after creating the file, the other found the file
\* at its check and returned after comparing the hashes
C12_WitnessHashed ==
    \E k \in ConcKeys, p \in Procs, q \in Procs :
        /\ FinishedWriteKey(procs[p], k) /\ FinishedWriteKey(procs[q], k)
        /\ procs[p].made = "created"
        /\ procs[q].saw /\ procs[q].res = Ok

\* two finished write_key calls of different content for one file name, both
\* of which found no file at their is_file check, on an existing directory
\* that had nothing at that name
RacedWrites(p, q) ==
    /\ p # q
    /\ dirExists
    /\ procs[p].pc = "done" /\ procs[p].op = "write_key"
    /\ procs[q].pc = "done" /\ procs[q].op = "write_key"
    /\ own_filename(procs[p].k1) = own_filename(procs[q].k1)
    /\ to_key_string(procs[p].k1) # to_key_string(procs[q].k1)
    /\ ~Exists(initial, own_filename(procs[p].k1))
    /\ ~procs[p].saw /\ ~procs[q].saw

(***************************************************************************)
(* C13.  The conflict check of write_key is not race-free: when two        *)
(* processes write different content for one file name and both pass the   *)
(* is_file check before either publishes, both calls return Ok, neither    *)
(* gets the conflict error, and the bytes published first are replaced by  *)
(* the second publish.                                                     *)
(***************************************************************************)
C13_CheckThenWriteRace ==
    \A p \in Procs, q \in Procs :
        RacedWrites(p, q)
        => /\ procs[p].res = Ok /\ procs[q].res = Ok
           /\ {procs[p].made, procs[q].made} = {"created", "replaced"}
           /\ procs[q].made = "replaced"
              => /\ Saved(files, procs[q].k1)
                 /\ ~Saved(files, procs[p].k1)

\* the interleaving exists: both calls returned Ok and the file of the first
\* publisher has been replaced by the content of the second
C13_Witness ==
    \E p \in Procs, q \in Procs :
        /\ RacedWrites(p, q)
        /\ procs[p].res = Ok /\ procs[q].res = Ok
        /\ procs[p].made = "created" /\ procs[q].made = "replaced"
        /\ Saved(files, procs[q].k1)
        /\ ~Saved(files, procs[p].k1)

\* content is the complete serialized content of some key record
Complete(content) == \E k \in Keys : content = to_key_string(k)

\* process p returns an error from write_key in this step
FailsNow(p) ==
    /\ procs[p].pc \notin {"idle", "done"}
    /\ procs'[p].pc = "done"
    /\ procs'[p].res # Ok

\* what an observer of the destination of every write that is under way or
\* finished sees: no file, or a file with complete content
C14_DestinationComplete ==
    \A p \in Procs :
        procs[p].todo # <<>>
        => LET dest == own_filename(Cur(procs[p]))
           IN  IsFile(files, dest) => Complete(files[dest].content)

(***************************************************************************)
(* C14.  A partially written key file is never observable: at every point  *)
(* of a write_key execution the destination path is absent or holds the    *)
(* complete serialized content of a record, and a write_key that fails     *)
(* creates or changes no file.                                             *)
(***************************************************************************)
C14_NoPartialFile ==
    /\ []C14_DestinationComplete
    /\ [][\A p \in Procs : FailsNow(p) => files' = files]_vars

\* a write has part of its bytes on disk while its destination is absent,
\* and the write_key of the other process has failed
C14_Witness ==
    \E p \in Procs, q \in Procs :
        /\ procs[p].pc = "write" /\ procs[p].tmp = "partial"
        /\ ~Exists(files, own_filename(Cur(procs[p])))
        /\ procs[q].pc = "done" /\ procs[q].op = "write_key"
        /\ procs[q].res # Ok

\* the files of directory f that were not in directory g
CreatedSince(f, g) == {n \in DOMAIN f : ~Exists(g, n)}

(***************************************************************************)
(* C15.  Every file the cache has created has the mode of the kind of the  *)
(* key it holds (public kinds "public", secret kinds "secret"); the mode   *)
(* of a file that exists is never changed, neither by the last operation   *)
(* nor since the cache was opened; so no file holding a secret key is      *)
(* readable by others.                                                     *)
(***************************************************************************)
C15_PermissionsOfKind ==
    /\ \A n \in CreatedSince(files, initial) :
          /\ files[n].type = "file"
          /\ \E k \in Keys :
                /\ n = own_filename(k)
                /\ files[n].content = to_key_string(k)
                /\ files[n].mode = Permissions(k.kind)
    /\ \A n \in DOMAIN initial : Exists(files, n) /\ files[n].mode = initial[n].mode
    /\ \A n \in DOMAIN pre : Exists(files, n) /\ files[n].mode = pre[n].mode
    /\ \A n \in DOMAIN files, k \in Keys :
          (IsFile(files, n) /\ files[n].content = to_key_string(k)
           /\ Permissions(k.kind) = "secret")
          => files[n].mode = "secret"

\* the cache has created a secret key file and a public key file, and the
\* last operation was a write on a directory that already held a file
C15_Witness ==
    /\ \E n \in CreatedSince(files, initial), k \in Keys :
          files[n].content = to_key_string(k) /\ files[n].mode = "secret"
    /\ \E n \in CreatedSince(files, initial), k \in Keys :
          files[n].content = to_key_string(k) /\ files[n].mode = "public"
    /\ last.op \in PairOps \cup {"write_key"}
    /\ pre # NoFiles

\* the regular files of directory f that are revisions of the key `name`
\* with the extension key_extension
RevisionFilesOf(f, name, key_extension) ==
    {n \in DOMAIN f : IsFile(f, n) /\ IsRevisionOf(n, name, key_extension)}

(***************************************************************************)
(* C16.  As stated: the paths get_all_paths_for finds for a name are       *)
(* exactly the regular files that are revisions of the key of that name    *)
(* and extension; no file of a key with another name is among them, also   *)
(* when the name searched is a prefix of the other name.  Refuted: the     *)
(* glob "a-*.pub" matches a-b-01.pub, a revision of the key "a-b".         *)
(***************************************************************************)
C16_ExactlyTheRevisions ==
    \A kind \in KindsInUse, name \in Names :
        get_all_paths_for(files, name, Extension(kind))
            = RevisionFilesOf(files, name, Extension(kind))

\* keys of different kinds with one name, one revision and one extension
SameFileOtherKind(k1, k2) ==
    /\ k1.kind # k2.kind
    /\ named_revision(k1) = named_revision(k2)
    /\ Extension(k1.kind) = Extension(k2.kind)

(***************************************************************************)
(* C17.  Two keys of different kinds that share name, revision and         *)
(* extension have the same file name; when the file holds the first, a     *)
(* write_key of the second fails with the conflict error and the file      *)
(* keeps the content of the first.                                         *)
(***************************************************************************)
C17_KindCollision ==
    /\ \A k1 \in OriginKeys, k2 \in OriginKeys :
          SameFileOtherKind(k1, k2) => own_filename(k1) = own_filename(k2)
    /\ \A k1 \in OriginKeys :
          (/\ last.op = "write_key"
           /\ SameFileOtherKind(k1, last.k1)
           /\ Saved(pre, k1))
          => /\ IsConflict(last.res)
             /\ Saved(files, k1)
             /\ files = pre

\* a public origin signing key was written, then a public origin encryption
\* key of the same name and revision was refused
C17_Witness ==
    \E k1 \in written :
        /\ last.op = "write_key"
        /\ k1.kind = "PublicOriginSigningKey"
        /\ last.k1.kind = "OriginPublicEncryptionKey"
        /\ SameFileOtherKind(k1, last.k1)
        /\ IsConflict(last.res)
        /\ Saved(files, k1)

FetchOps == {"fetch_latest_revision", "fetch_specific_revision"}

\* the read recorded in `last` found a file to read
FoundFile(f, op, query) ==
    IF op = "fetch_latest_revision"
    THEN get_all_paths_for(f, query.name, Extension(query.kind)) # {}
    ELSE Exists(f, filename(query.kind, [name |-> query.name, rev |-> query.rev]))

\* the path the read recorded in `last` selected
SelectedPath(f, op, query) ==
    IF op = "fetch_latest_revision"
    THEN MaxPath(get_all_paths_for(f, query.name, Extension(query.kind)))
    ELSE filename(query.kind, [name |-> query.name, rev |-> query.rev])

\* the file at `path` holds a key of another kind than `kind` that has the
\* extension of `kind`
HoldsOtherKind(f, path, kind) ==
    /\ IsFile(f, path)
    /\ \E k \in OriginKeys :
          /\ k.kind # kind
          /\ Extension(k.kind) = Extension(kind)
          /\ f[path].content = to_key_string(k)

(***************************************************************************)
(* C18.  When the file a read selects (by name or by named revision) holds *)
(* a key of another kind with the same extension, the read finds the file, *)
(* returns the parse error and no key; every key a read of kind K returns  *)
(* is of kind K and is the key the selected file holds.                    *)
(***************************************************************************)
C18_NeverWrongKind ==
    last.op \in FetchOps =>
        /\ (/\ FoundFile(pre, last.op, last.query)
            /\ HoldsOtherKind(pre, SelectedPath(pre, last.op, last.query),
                              last.query.kind))
           => (last.res = ParseFailure /\ last.out = NoKey)
        /\ last.res = Ok
           => /\ last.out.kind = last.query.kind
              /\ FoundFile(pre, last.op, last.query)
              /\ own_filename(last.out) = SelectedPath(pre, last.op, last.query)
              /\ Saved(files, last.out)

\* a read of a public origin encryption key selected the file of a public
\* origin signing key
C18_Witness ==
    /\ last.op \in FetchOps
    /\ last.query.kind = "OriginPublicEncryptionKey"
    /\ \E k \in written : k.kind = "PublicOriginSigningKey"
    /\ FoundFile(pre, last.op, last.query)
    /\ HoldsOtherKind(pre, SelectedPath(pre, last.op, last.query), last.query.kind)
    /\ last.res = ParseFailure

\* the file at `path` does not hold a key of the kind
Unusable(f, path, kind) ==
    IsFile(f, path) /\ ~\E k \in KeysOf(kind) : f[path].content = to_key_string(k)

(***************************************************************************)
(* C19.  fetch_latest_revision makes no distinction between an absent key  *)
(* and a present but unusable key: when no file matches the name and when  *)
(* the selected file does not parse, it returns an error of the same kind  *)
(* (Error::CryptoError, the not-found class) and no key.                   *)
(***************************************************************************)
C19_AbsentLikeUnusable ==
    LET paths == get_all_paths_for(pre, last.query.name, Extension(last.query.kind))
    IN  last.op = "fetch_latest_revision" =>
            /\ paths = {}
               => (last.res = NoRevisionsFound /\ last.out = NoKey)
            /\ (paths # {} /\ Unusable(pre, MaxPath(paths), last.query.kind))
               => (last.res = ParseFailure /\ last.out = NoKey)
            /\ NoRevisionsFound.variant = ParseFailure.variant
            /\ last.res # Ok
               => (last.res.variant = NoRevisionsFound.variant /\ IsNotFound(last.res))

\* a read by name selected a file that is no key at all and failed
C19_Witness ==
    LET paths == get_all_paths_for(pre, last.query.name, Extension(last.query.kind))
    IN  /\ last.op = "fetch_latest_revision"
        /\ paths # {}
        /\ pre[MaxPath(paths)].content = Garbage
        /\ last.res = ParseFailure

(***************************************************************************)
(* C20.  setup is idempotent: every call succeeds and leaves the directory *)
(* in existence; it changes no entry of the directory, and when the        *)
(* directory exists already it changes nothing at all, so a second call    *)
(* leaves the state the first call left, with the keys in it untouched.    *)
(***************************************************************************)
C20_SetupIdempotent ==
    [][last'.op = "setup" =>
          /\ last'.res = Ok
          /\ dirExists'
          /\ files' = files
          /\ dirExists => UNCHANGED <<dirExists, files, initial, written>>
          /\ last.op = "setup" => UNCHANGED <<dirExists, files, last>>]_vars

\* setup was called on a directory that holds keys the cache wrote, and
\* they are still there
C20_Witness ==
    /\ last.op = "setup"
    /\ dirExists
    /\ files = pre
    /\ \E k \in written : Saved(files, k)

ErrorKind(res) == res.variant

(***************************************************************************)
(* C22.  As stated: the error of a content conflict in write_key is of     *)
(* another kind than the error of a pair mismatch in write_pair and than   *)
(* the error of a missing key in a read.  Refuted: the three are the same  *)
(* variant, Error::CryptoError.                                            *)
(***************************************************************************)
C22_AsStated ==
    IsConflict(last.res)
    => /\ ErrorKind(last.res) # ErrorKind(NotAPair)
       /\ ErrorKind(last.res) # ErrorKind(NoRevisionsFound)
       /\ ErrorKind(last.res) # ErrorKind(KeyNotFound)

\* C22 (amended): every failure is returned to the caller, as an
\* Error::CryptoError or as a propagated I/O error; the content conflict,
\* the pair mismatch and the missing key are all of the one kind
\* Error::CryptoError and differ in their message only; a failed write is
\* the result of one attempt.
C22_OneErrorKind ==
    /\ last.res # Ok => ErrorKind(last.res) \in {"CryptoError", "IO"}
    /\ (IsConflict(last.res) \/ IsPairMismatch(last.res) \/ IsNotFound(last.res))
       => ErrorKind(last.res) = "CryptoError"
    /\ Cardinality({HashDiffers.msg, NotAPair.msg, NoRevisionsFound.msg,
                    KeyNotFound.msg}) = 4
    /\ (last.op = "write_key" /\ last.res # Ok)
       => (last.res = write_key(dirExists, pre, last.k1).res /\ files = pre)
    /\ (last.op \in PairOps /\ last.res # Ok)
       => last.res = write_pair(dirExists, pre, last.k1, last.k2).res

\* a write_key has returned the conflict error; its kind is the kind of the
\* pair mismatch and of the missing key
C22_Witness ==
    /\ last.op = "write_key"
    /\ IsConflict(last.res)
    /\ ErrorKind(last.res) = ErrorKind(NotAPair)
    /\ ErrorKind(last.res) = ErrorKind(KeyNotFound)

(***************************************************************************)
(* C23.  write_key(k) creates bytes only when no file exists at the path   *)
(* of k: a call creates at most one file, the file of k with the           *)
(* serialized content of k, and only when it succeeds and nothing was at   *)
(* that path; every entry the directory had is left as it was.             *)
(***************************************************************************)
C23_WriteKeyFrame ==
    last.op = "write_key" =>
        /\ CreatedSince(files, pre) \subseteq {own_filename(last.k1)}
        /\ CreatedSince(files, pre) # {}
           => /\ last.res = Ok
              /\ ~Exists(pre, own_filename(last.k1))
              /\ Saved(files, last.k1)
        /\ Exists(pre, own_filename(last.k1)) => files = pre
        /\ Preserved(pre, files)
        /\ last.res = Ok => Saved(files, last.k1)

\* a write_key has created its file in a directory that held other files
C23_Witness ==
    /\ last.op = "write_key"
    /\ last.res = Ok
    /\ CreatedSince(files, pre) = {own_filename(last.k1)}
    /\ pre # NoFiles
    /\ Preserved(pre, files)

\* the regular files of directory f whose name matches "<name>-*.<extension>"
RegularMatches(f, name, key_extension) ==
    {n \in DOMAIN f : GlobMatches(name, key_extension, n) /\ IsFile(f, n)}

\* the entries of directory f whose name matches and that are no regular files
OtherMatches(f, name, key_extension) ==
    {n \in DOMAIN f : GlobMatches(name, key_extension, n) /\ ~IsFile(f, n)}

(***************************************************************************)
(* C24.  fetch_latest_revision considers regular files only: it reads the  *)
(* greatest matching regular file, or reports that there is no revision    *)
(* when no regular file matches; a directory whose name matches is never   *)
(* selected, also when its name is greater than that of every matching     *)
(* regular file.                                                           *)
(***************************************************************************)
C24_RegularFilesOnly ==
    LET ext == Extension(last.query.kind)
        regs == RegularMatches(pre, last.query.name, ext)
    IN  last.op = "fetch_latest_revision" =>
            /\ regs = {} => (last.res = NoRevisionsFound /\ last.out = NoKey)
            /\ regs # {}
               => /\ last.res = try_from(pre, last.query.kind, MaxPath(regs)).res
                  /\ last.out = try_from(pre, last.query.kind, MaxPath(regs)).key
            /\ ~IsIoFailure(last.res)
            /\ last.res = Ok => IsFile(pre, own_filename(last.out))

\* a read by name returned the key of a regular file although a directory
\* with a greater matching name is in the cache
C24_Witness ==
    LET ext == Extension(last.query.kind)
        regs == RegularMatches(pre, last.query.name, ext)
    IN  /\ last.op = "fetch_latest_revision"
        /\ last.res = Ok
        /\ regs # {}
        /\ \E dname \in OtherMatches(pre, last.query.name, ext) :
              \A n \in regs : PathLess(n, dname)

\* the result of the operation recorded in `last`, computed from the
\* directory as it was when the operation started and from nothing else
FromDirectoryOnly(op, k1, k2, query) ==
    IF op = "write_key"
    THEN [res |-> write_key(dirExists, pre, k1).res, out |-> NoKey,
          files |-> write_key(dirExists, pre, k1).files]
    ELSE IF op \in PairOps
    THEN [res |-> write_pair(dirExists, pre, k1, k2).res, out |-> NoKey,
          files |-> write_pair(dirExists, pre, k1, k2).files]
    ELSE IF op = "fetch_latest_revision"
    THEN [res |-> fetch_latest_revision(pre, query.kind, query.name).res,
          out |-> fetch_latest_revision(pre, query.kind, query.name).key,
          files |-> pre]
    ELSE IF op = "fetch_specific_revision"
    THEN [res |-> fetch_specific_revision(pre, query.kind,
                      [name |-> query.name, rev |-> query.rev]).res,
          out |-> fetch_specific_revision(pre, query.kind,
                      [name |-> query.name, rev |-> query.rev]).key,
          files |-> pre]
    ELSE [res |-> Ok, out |-> NoKey, files |-> pre]

(***************************************************************************)
(* C25.  The cache holds no mutable in-memory state: two KeyCache values   *)
(* of one path are equal, the result of every operation is the one         *)
(* computed from the directory as it is on disk, whichever value the       *)
(* operation is called through, and a key written through one value is     *)
(* returned by the reads through every value.                              *)
(***************************************************************************)
C25_NoInMemoryState ==
    /\ \A h1 \in Handles, h2 \in Handles : KeyCacheValue(h1) = KeyCacheValue(h2)
    /\ LET r == FromDirectoryOnly(last.op, last.k1, last.k2, last.query)
       IN  last.res = r.res /\ last.out = r.out /\ files = r.files
    /\ (last.op = "write_key" /\ last.res = Ok)
       => \A h \in Handles :
             /\ fetch_specific_revision(Directory(h), last.k1.kind,
                                        named_revision(last.k1))
                    = [res |-> Ok, key |-> last.k1]
             /\ fetch_latest_revision(Directory(h), last.k1.kind, last.k1.name).res
                    = Ok

\* a write through one KeyCache value has created the file of a key, and
\* the read of its named revision through the other value returns that key
C25_Witness ==
    /\ last.op = "write_key"
    /\ last.via = "cache"
    /\ last.res = Ok
    /\ ~Exists(pre, own_filename(last.k1))
    /\ fetch_specific_revision(Directory("clone"), last.k1.kind,
                               named_revision(last.k1)).key = last.k1

\* the file at `path` holds a key of the kind
Usable(f, path, kind) ==
    IsFile(f, path) /\ \E k \in KeysOf(kind) : f[path].content = to_key_string(k)

(***************************************************************************)
(* C26.  fetch_latest_revision never falls back to an older revision: the  *)
(* key it returns is read from the greatest matching path, and when the    *)
(* file at that path does not parse as the kind asked for it returns the   *)
(* error, also when a file of an older revision of that name holds a       *)
(* valid key of the kind.                                                  *)
(***************************************************************************)
C26_NoFallback ==
    LET paths == get_all_paths_for(pre, last.query.name, Extension(last.query.kind))
    IN  (last.op = "fetch_latest_revision" /\ paths # {}) =>
            /\ last.res = Ok
               => /\ own_filename(last.out) = MaxPath(paths)
                  /\ Usable(pre, MaxPath(paths), last.query.kind)
            /\ (/\ Unusable(pre, MaxPath(paths), last.query.kind)
                /\ \E older \in paths : Usable(pre, older, last.query.kind))
               => (last.res # Ok /\ last.out = NoKey)

\* a read by name failed on the greatest file while an older revision of
\* the name, written by the cache, holds a valid key of the kind
C26_Witness ==
    LET paths == get_all_paths_for(pre, last.query.name, Extension(last.query.kind))
    IN  /\ last.op = "fetch_latest_revision"
        /\ paths # {}
        /\ Unusable(pre, MaxPath(paths), last.query.kind)
        /\ \E k \in written :
              /\ k.kind = last.query.kind
              /\ k.name = last.query.name
              /\ own_filename(k) \in paths
              /\ PathLess(own_filename(k), MaxPath(paths))
              /\ Saved(pre, k)
        /\ last.res # Ok

(***************************************************************************)
(* C27.  write_pair stops at the first failing half: when the write of the *)
(* public key fails, with the conflict error or an I/O error, write_pair   *)
(* returns that error, the secret key is not written and the call creates  *)
(* and changes no file.                                                    *)
(***************************************************************************)
C27_StopsAtPublicFailure ==
    LET w1 == write_key(dirExists, pre, last.k1)
    IN  (/\ last.op \in PairOps
         /\ named_revision(last.k1) = named_revision(last.k2)
         /\ w1.res # Ok)
        => /\ IsConflict(w1.res) \/ IsIoFailure(w1.res)
           /\ last.res = w1.res
           /\ files = pre
           /\ CreatedSince(files, pre) = {}
           /\ ~Exists(pre, own_filename(last.k2))
              => ~Exists(files, own_filename(last.k2))
           /\ Saved(files, last.k2) => Saved(pre, last.k2)

\* the public half of a pair met other content at its file name: the call
\* has returned the conflict error and there is no file of the secret half
C27_Witness ==
    /\ last.op \in PairOps
    /\ named_revision(last.k1) = named_revision(last.k2)
    /\ IsConflict(last.res)
    /\ IsFile(pre, own_filename(last.k1))
    /\ ~Saved(pre, last.k1)
    /\ ~Exists(files, own_filename(last.k2))

(***************************************************************************)
(* C28.  After a write_pair(public, secret) that returned Ok both halves   *)
(* are in the cache: fetch_specific_revision of their named revision       *)
(* returns public for the public kind and secret for the secret kind; and  *)
(* write_pair of the same pair, called again, returns Ok and changes       *)
(* nothing.                                                                *)
(***************************************************************************)
C28_PairSavedAndIdempotent ==
    LET again == write_pair(dirExists, files, last.k1, last.k2)
    IN  (last.op \in PairOps /\ last.res = Ok) =>
            /\ named_revision(last.k1) = named_revision(last.k2)
            /\ fetch_specific_revision(files, last.k1.kind, named_revision(last.k1))
                   = [res |-> Ok, key |-> last.k1]
            /\ fetch_specific_revision(files, last.k2.kind, named_revision(last.k1))
                   = [res |-> Ok, key |-> last.k2]
            /\ again.res = Ok
            /\ again.files = files

\* the second write of this cache is a write_pair of the pair the first
\* write created: it has returned Ok and changed nothing
C28_Witness ==
    /\ last.op \in PairOps
    /\ last.res = Ok
    /\ nwrites = 2
    /\ {last.k1, last.k2} \subseteq written
    /\ Saved(pre, last.k1) /\ Saved(pre, last.k2)
    /\ ~Exists(initial, own_filename(last.k1))
    /\ ~Exists(initial, own_filename(last.k2))
    /\ files = pre

(***************************************************************************)
(* C29.  As stated: the latest revision never goes backwards.  For every   *)
(* kind and name for which fetch_latest_revision returned a key before the *)
(* last operation, it returns a key after it, of a revision that is        *)
(* greater or the same.  Refuted: after write_key of a-b-01 the latest     *)
(* revision of "a" goes from 02 back to 01.                                *)
(***************************************************************************)
C29_NeverBackwards ==
    \A kind \in KindsInUse, name \in Names :
        LET before == fetch_latest_revision(pre, kind, name)
            after == fetch_latest_revision(files, kind, name)
        IN  before.res = Ok
            => /\ after.res = Ok
               /\ ~PathLess(after.key.rev, before.key.rev)

(***************************************************************************)
(* C30.  As stated: in every cache built by cache writes, a key that       *)
(* fetch_latest_revision returns for a kind and name has that name, and    *)
(* fetch_specific_revision of that kind and of the key's named revision    *)
(* returns the same key.  Refuted: for the name "a" the latest read        *)
(* returns a key named "a-b".                                              *)
(***************************************************************************)
C30_LatestAgreesWithSpecific ==
    initial = NoFiles =>
        \A kind \in KindsInUse, name \in Names :
            LET r == fetch_latest_revision(files, kind, name)
            IN  r.res = Ok
                => /\ r.key.name = name
                   /\ fetch_specific_revision(files, kind, named_revision(r.key))
                          = [res |-> Ok, key |-> r.key]

(***************************************************************************)
(* C31.  The reads do not modify the cache: a fetch_latest_revision or a   *)
(* fetch_specific_revision, whether it returns a key or an error, leaves   *)
(* the entries of the directory and the content of every file as they      *)
(* were, and does not create the directory.                                *)
(***************************************************************************)
C31_ReadsChangeNothing ==
    [][last'.op \in FetchOps => UNCHANGED <<dirExists, files, written>>]_vars

\* a read has failed on a missing directory, which is still missing
C31_Witness ==
    /\ last.op \in FetchOps
    /\ last.res # Ok
    /\ ~dirExists
    /\ files = pre

\* process record pr is a finished fetch_latest_revision call
FinishedRead(pr) == pr.op = "fetch_latest_revision" /\ pr.pc = "done"

\* process record pr is a write_key call, at any step, of a key of the kind
\* and name the read of rd asks for
WriterFor(pr, rd) ==
    /\ pr.op = "write_key"
    /\ pr.k1.kind = rd.query.kind
    /\ pr.k1.name = rd.query.name

(***************************************************************************)
(* C32.  A fetch_latest_revision that runs next to a write_key of a        *)
(* revision of the same name and kind returns what it would have returned  *)
(* on the directory as it was at its call (the key that was the latest     *)
(* then) or the key the write_key is writing: never an error that the      *)
(* write caused, never a key read from a part of the content.              *)
(***************************************************************************)
C32_ReadBesideWrite ==
    \A p \in Procs, q \in Procs :
        (p # q /\ FinishedRead(procs[p]))
        => /\ \/ (procs[p].res = procs[p].before.res
                  /\ procs[p].out = procs[p].before.key)
              \/ (/\ WriterFor(procs[q], procs[p])
                  /\ procs[p].res = Ok
                  /\ procs[p].out = procs[q].k1)
           /\ procs[p].before.res = Ok => procs[p].res = Ok
           /\ procs[p].res = Ok => procs[p].out \in Keys

\* the read was called while an older revision was the latest and has
\* returned the newer revision, which the write_key of the other process
\* published after the read was called
C32_Witness ==
    \E p \in Procs, q \in Procs :
        /\ p # q
        /\ FinishedRead(procs[p])
        /\ WriterFor(procs[q], procs[p])
        /\ procs[p].before.res = Ok
        /\ procs[p].res = Ok
        /\ procs[p].out = procs[q].k1
        /\ PathLess(procs[p].before.key.rev, procs[p].out.rev)
        /\ procs[q].made = "created"

\* the read was called while the write_key was under way, listed the
\* directory before the new revision was published and has returned the
\* older revision although the newer one is in the directory by now
C32_WitnessOlder ==
    \E p \in Procs, q \in Procs :
        /\ p # q
        /\ FinishedRead(procs[p])
        /\ WriterFor(procs[q], procs[p])
        /\ procs[q].pc = "done" /\ procs[q].made = "created"
        /\ procs[p].res = Ok
        /\ procs[p].out = procs[p].before.key
        /\ PathLess(procs[p].out.rev, procs[q].k1.rev)

(***************************************************************************)
(* C33: kinds with different extensions are isolated.                      *)
(***************************************************************************)
\* the last operation was a write_key of a key of kind `kind`
WroteKind(kind) == last.op = "write_key" /\ last.k1.kind = kind

\* read latest and read specific of `kind` answer the same in f and g
SameReads(f, g, kind) ==
    /\ \A name \in Names :
           fetch_latest_revision(f, kind, name)
               = fetch_latest_revision(g, kind, name)
    /\ \A nr \in NamedRevisions :
           fetch_specific_revision(f, kind, nr)
               = fetch_specific_revision(g, kind, nr)

\* C33: after write_key of a key of kind K1, whatever its outcome, read
\* latest and read specific of every kind K2 whose extension differs from
\* K1's return, for every name and every named revision, what they returned
\* before the write.
C33_ExtensionsIsolated ==
    \A k1 \in KindsInUse, k2 \in KindsInUse :
        (WroteKind(k1) /\ Extension(k1) # Extension(k2))
        => SameReads(pre, files, k2)

\* a key was written while the key of another extension with the same name
\* and revision was in the cache, and that other key is still what both
\* reads of its kind return
C33_Witness ==
    /\ last.op = "write_key"
    /\ last.res = Ok
    /\ ~Exists(pre, own_filename(last.k1))
    /\ \E k \in Keys :
           /\ k.name = last.k1.name
           /\ k.rev = last.k1.rev
           /\ Extension(k.kind) # Extension(last.k1.kind)
           /\ IsFile(pre, own_filename(k))
           /\ fetch_latest_revision(files, k.kind, k.name).res = Ok
           /\ fetch_latest_revision(files, k.kind, k.name).key = k
           /\ fetch_specific_revision(files, k.kind, named_revision(k)).key = k

(***************************************************************************)
(* TestSup and its port claims (tests/utils/test_sup.rs).  Every test is a *)
(* task of one runtime; a task gives way to the others at each .await.     *)
(***************************************************************************)
\* number of port numbers random_port draws from
MaxPorts == 3

\* random_port: the lowest port above the IANA registrations
FirstPort == 49152

Ports == FirstPort .. (FirstPort + MaxPorts - 1)

NoPort == 0

\* random_port: any port of the range
random_port == Ports

\* the tries new_with_random_ports gives each of its unclaimed_port calls
RandomPortAttempts == 10

\* the tests that run in parallel
Tests == {"t1", "t2"}

\* TcpListener::bind: Ok, the address is in use, or another io error
BindResults == {"Ok", "AddrInUse", "OtherError"}

\* the names of the three port fields, in the order they are allocated
PortFields == <<"http_port", "butterfly_port", "control_port">>

\* a task that created no TestSup yet
NoSup ==
    [pc |-> "none", origin |-> "none", call |-> 0, max_attempts |-> 0,
     attempts |-> 0,
     http_port |-> NoPort, butterfly_port |-> NoPort, control_port |-> NoPort,
     process |-> "None", res |-> "none"]

\* the ports of the TestSup (or of the TestSup under construction) of a task
PortsOf(s) == {s.http_port, s.butterfly_port, s.control_port} \ {NoPort}

\* no key cache is in use while the test utilities are exercised
CacheIdle ==
    /\ dirExists = FALSE
    /\ files = NoFiles
    /\ initial = files
    /\ pre = files
    /\ last = Op("new", Ok, NoKey, NoKey, NoQuery, NoKey)
    /\ written = {}
    /\ twice = "no"
    /\ nwrites = 0
    /\ procs = [p \in Procs |-> IdleProc]

InitPorts ==
    /\ CacheIdle
    /\ CLAIMED_PORTS = {}
    /\ mutex = NoTask
    /\ sups = [t \in Tests |-> NoSup]
    /\ SnapshotsIdle
    /\ PkgIdle

PortsFrame == UNCHANGED <<cacheVars, snapshotVars, pkgVars>>

\* a call of new_with_random_ports that ends with an error: the TestSup is
\* never built, the ports claimed so far stay in CLAIMED_PORTS
Failed(s, res) ==
    [NoSup EXCEPT !.pc = "failed", !.origin = s.origin,
                  !.max_attempts = s.max_attempts, !.attempts = s.attempts,
                  !.res = res]

\* unclaimed_port, the end of the loop body: give up or go round again
CheckAttempts(s) ==
    IF s.attempts > s.max_attempts
    THEN Failed(s, "OutOfAttempts")
    ELSE [s EXCEPT !.pc = "bind"]

\* unclaimed_port(max_attempts) is entered for the call-th port
EnterUnclaimedPort(s, call, max_attempts) ==
    [s EXCEPT !.pc = "bind", !.call = call, !.max_attempts = max_attempts,
              !.attempts = 0]

\* TestSup::new_with_random_ports, up to its first unclaimed_port(10).await
NewWithRandomPorts(t) ==
    /\ sups[t].pc = "none"
    /\ sups' = [sups EXCEPT ![t] =
                   EnterUnclaimedPort([NoSup EXCEPT !.origin = "random"],
                                      1, RandomPortAttempts)]
    /\ UNCHANGED <<CLAIMED_PORTS, mutex>>
    /\ PortsFrame

\* unclaimed_port: random_port() and a TcpListener::bind(..).await that fails
StepBindErr(t) ==
    /\ sups[t].pc = "bind"
    /\ \E bound \in BindResults \ {"Ok"} :
           sups' = [sups EXCEPT ![t] =
                       IF bound = "AddrInUse"
                       THEN CheckAttempts([@ EXCEPT !.attempts = @ + 1])
                       ELSE Failed(@, "BindError")]
    /\ UNCHANGED <<CLAIMED_PORTS, mutex>>
    /\ PortsFrame

\* TestSup::new: the executables are found or not; no port is looked at
new(s) ==
    {[s EXCEPT !.pc = "built", !.call = 0, !.max_attempts = 0, !.attempts = 0,
               !.res = "Ok"],
     Failed(s, "NewError")}

\* what follows Ok(port) of the call-th unclaimed_port in new_with_random_ports
Claimed(s, port) ==
    LET got == [s EXCEPT ![PortFields[s.call]] = port]
    IN  IF s.call < Len(PortFields)
        THEN {EnterUnclaimedPort(got, s.call + 1, RandomPortAttempts)}
        ELSE new(got)

\* unclaimed_port: random_port(), a TcpListener::bind(..).await that succeeds,
\* CLAIMED_PORTS.lock().await, and the arm that claimed_ports.contains(&port)
\* selects, up to its sleep or its return.  The listener is the task's own and
\* no other task runs on the claimed ports before the lock is granted, so the
\* step is taken when the lock is.
StepBindOk(t) ==
    /\ sups[t].pc = "bind"
    /\ mutex = NoTask
    /\ \E port \in random_port :
           IF port \in CLAIMED_PORTS
           THEN /\ sups' = [sups EXCEPT ![t].pc = "sleep"]
                /\ mutex' = t
                /\ UNCHANGED CLAIMED_PORTS
           ELSE /\ CLAIMED_PORTS' = CLAIMED_PORTS \cup {port}
                /\ mutex' = NoTask
                /\ \E s \in Claimed(sups[t], port) : sups' = [sups EXCEPT ![t] = s]
    /\ PortsFrame

\* unclaimed_port: the sleep is over; the guard is dropped with the arm
StepSleep(t) ==
    /\ sups[t].pc = "sleep"
    /\ mutex = t
    /\ mutex' = NoTask
    /\ sups' = [sups EXCEPT ![t] = CheckAttempts([@ EXCEPT !.attempts = @ + 1])]
    /\ UNCHANGED CLAIMED_PORTS
    /\ PortsFrame

\* TestSup::new with ports the caller chose
New(t, http_port, butterfly_port, control_port) ==
    /\ sups[t].pc = "none"
    /\ \E s \in new([NoSup EXCEPT !.origin = "explicit",
                                  !.http_port = http_port,
                                  !.butterfly_port = butterfly_port,
                                  !.control_port = control_port]) :
           sups' = [sups EXCEPT ![t] = s]
    /\ UNCHANGED <<CLAIMED_PORTS, mutex>>
    /\ PortsFrame

\* TestSup::start: the spawn fails, or the process runs (the wait for its
\* ports may still time out)
Start(t) ==
    /\ sups[t].pc = "built"
    /\ sups[t].process = "None"
    /\ \E spawned \in BOOLEAN, opened \in BOOLEAN :
           sups' = [sups EXCEPT ![t].process = IF spawned THEN "Some" ELSE "None",
                                ![t].res = IF spawned /\ opened THEN "Ok"
                                           ELSE "StartError"]
    /\ UNCHANGED <<CLAIMED_PORTS, mutex>>
    /\ PortsFrame

\* stop has consumed the TestSup and returned res
Stopped(s, res) == [NoSup EXCEPT !.pc = "stopped", !.origin = s.origin, !.res = res]

\* TestSup::stop, up to process.kill().await or, without a process, its end
Stop(t) ==
    /\ sups[t].pc = "built"
    /\ mutex = NoTask
    /\ CLAIMED_PORTS' = ((CLAIMED_PORTS \ {sups[t].http_port})
                            \ {sups[t].butterfly_port}) \ {sups[t].control_port}
    /\ IF sups[t].process = "Some"
       THEN /\ mutex' = t
            /\ sups' = [sups EXCEPT ![t].pc = "kill", ![t].process = "None"]
       ELSE /\ mutex' = NoTask
            /\ sups' = [sups EXCEPT ![t] = Stopped(@, "Ok")]
    /\ PortsFrame

\* TestSup::stop: the kill returns
StepKill(t) ==
    /\ sups[t].pc = "kill"
    /\ mutex = t
    /\ mutex' = NoTask
    /\ \E res \in {"Ok", "KillError"} :
           sups' = [sups EXCEPT ![t] = Stopped(@, res)]
    /\ UNCHANGED CLAIMED_PORTS
    /\ PortsFrame

NextPorts ==
    \/ \E t \in Tests : NewWithRandomPorts(t)
    \/ \E t \in Tests : StepBindErr(t)
    \/ \E t \in Tests : StepBindOk(t)
    \/ \E t \in Tests : StepSleep(t)
    \/ \E t \in Tests, h \in Ports, b \in Ports, c \in Ports : New(t, h, b, c)
    \/ \E t \in Tests : Start(t)
    \/ \E t \in Tests : Stop(t)
    \/ \E t \in Tests : StepKill(t)

SpecPorts == InitPorts /\ [][NextPorts]_vars

(***************************************************************************)
(* C34, C35, C38: port claims.                                             *)
(***************************************************************************)
\* the task holds a TestSup that stop was not called on
Running(s) == s.pc = "built"

\* C34: a port held by a TestSup that new_with_random_ports built and that has
\* not been stopped is a port of no other TestSup that has not been stopped.
C34_PortsPairwiseDistinct ==
    \A t \in Tests, u \in Tests :
        (t # u /\ Running(sups[t]) /\ Running(sups[u]) /\ sups[t].origin = "random")
        => PortsOf(sups[t]) \cap PortsOf(sups[u]) = {}

\* C35: unclaimed_port(max_attempts) looks at a further candidate port only
\* while fewer than max_attempts tries were unsuccessful, and when it gives
\* up for want of attempts exactly max_attempts tries were unsuccessful.
C35_GivesUpAfterMaxAttempts ==
    \A t \in Tests :
        /\ sups[t].pc = "bind" => sups[t].attempts < sups[t].max_attempts
        /\ sups[t].res = "OutOfAttempts" => sups[t].attempts = sups[t].max_attempts

\* C38: a step of TestSup::stop of one instance takes no port of another
\* instance that has not been stopped out of CLAIMED_PORTS.
C38_OthersStayClaimed ==
    [][\A t \in Tests, u \in Tests :
          (t # u /\ Stop(t) /\ Running(sups[u]))
          => (PortsOf(sups[u]) \cap CLAIMED_PORTS) \subseteq CLAIMED_PORTS']_vars

(***************************************************************************)
(* FileSystemSnapshot::modifications_since (tests/utils/fs.rs).            *)
(***************************************************************************)
\* the largest number of files in one snapshot
MaxFiles == 2

\* the folders a snapshot is taken of
Folders == {"hab_root", "fixture_root"}

\* a byte that occurs in no UTF-8 text
InvalidByte == "0xFF"

\* paths of files relative to the folder of the snapshot
RelPaths == {<<"a">>, <<"a", "b">>, <<"b">>, <<"b", InvalidByte>>}

\* Blake2bHash values
Hashes == {"h1", "h2"}

\* FileSnapshot: the path is the folder joined with the relative path
FileSnapshot(folder, rel, hash) ==
    [path |-> [folder |-> folder, rel |-> rel], hash |-> hash]

\* the values FileSystemSnapshot::new(folder) can return: every file of the
\* folder once, in the order read_dir happens to yield them
FileSystemSnapshots(folder) ==
    LET all == {FileSnapshot(folder, rel, hash) : rel \in RelPaths, hash \in Hashes}
        lists == UNION {[1..n -> all] : n \in 0..MaxFiles}
    IN  {[path |-> folder, files |-> l] :
            l \in {l \in lists :
                      \A i \in 1..Len(l), j \in 1..Len(l) :
                          l[i].path = l[j].path => i = j}}

\* the exclude lists passed to modifications_since; in a glob pattern a
\* literal character matches itself and "*" any run of characters
Excludes == {<<>>, <<(<<"a", "*">>)>>, <<(<<"b">>), (<<"a", "*">>)>>}

\* Pattern::matches
RECURSIVE matches(_, _)
matches(pattern, str) ==
    IF pattern = <<>>
    THEN str = <<>>
    ELSE IF Head(pattern) = "*"
         THEN \/ matches(Tail(pattern), str)
              \/ str # <<>> /\ matches(pattern, Tail(str))
         ELSE /\ str # <<>>
              /\ Head(str) = Head(pattern)
              /\ matches(Tail(pattern), Tail(str))

\* Path::strip_prefix(folder).unwrap() on the path of a file of the folder
strip_prefix(path, folder) == path.rel

\* Path::to_str: Some(text) for valid UTF-8, otherwise None; an Option is a
\* sequence of no or one element
to_str(rel) ==
    IF \E i \in 1..Len(rel) : rel[i] = InvalidByte THEN <<>> ELSE <<rel>>

\* exclude.iter().any(|p| p.matches(x))
Excluded(exclude, x) == \E i \in 1..Len(exclude) : matches(exclude[i], x)

\* the filter_map chain: relative path, to_str, exclude
RECURSIVE RelativeNames(_, _, _)
RelativeNames(fs, folder, exclude) ==
    IF fs = <<>>
    THEN <<>>
    ELSE LET x == to_str(strip_prefix(Head(fs).path, folder))
             kept == IF x # <<>> /\ ~Excluded(exclude, x[1]) THEN x ELSE <<>>
         IN  kept \o RelativeNames(Tail(fs), folder, exclude)

\* Ord of String: byte-wise lexicographic
StringLess(s, t) == PathLess(s, t)

\* collect::<BinaryHeap<String>>().into_sorted_vec() that keeps the order of
\* the iterator
into_sorted_vec_Unsorted(names) == names

\* collect::<BinaryHeap<String>>().into_sorted_vec(): ascending
RECURSIVE into_sorted_vec(_)
into_sorted_vec(names) ==
    IF names = <<>>
    THEN <<>>
    ELSE LET rest == into_sorted_vec(Tail(names))
             x == Head(names)
             smaller == SelectSeq(rest, LAMBDA y : StringLess(y, x))
             others == SelectSeq(rest, LAMBDA y : ~StringLess(y, x))
         IN  smaller \o <<x>> \o others

\* modifications_since panicked
Panic == [end |-> "panic"]

\* modifications_since was not called
NotCalled == [end |-> "none"]

\* other.files.iter().find(|of| of.path == f.path)
Find(fs, path) == SelectSeq(fs, LAMBDA of : of.path = path)

\* FileSystemSnapshot::modifications_since
modifications_since(self, other, exclude) ==
    IF self.path # other.path
    THEN Panic
    ELSE [end |-> "return",
          added |->
              into_sorted_vec(RelativeNames(
                  SelectSeq(self.files, LAMBDA f : Find(other.files, f.path) = <<>>),
                  self.path, exclude)),
          removed |->
              into_sorted_vec(RelativeNames(
                  SelectSeq(other.files, LAMBDA o : Find(self.files, o.path) = <<>>),
                  self.path, exclude)),
          updated |->
              into_sorted_vec(RelativeNames(
                  SelectSeq(self.files,
                            LAMBDA f : LET old == Find(other.files, f.path)
                                       IN  old # <<>> /\ old[1].hash # f.hash),
                  self.path, exclude))]

InitSnapshots ==
    /\ CacheIdle
    /\ PortsIdle
    /\ PkgIdle
    /\ \E a \in Folders, b \in Folders :
           snapshots \in [self : FileSystemSnapshots(a),
                          other : FileSystemSnapshots(b),
                          exclude : Excludes]
    /\ modifications = NotCalled

\* self.modifications_since(&other, exclude)
ModificationsSince ==
    /\ modifications = NotCalled
    /\ modifications' = modifications_since(snapshots.self, snapshots.other,
                                            snapshots.exclude)
    /\ UNCHANGED <<cacheVars, portVars, pkgVars, snapshots>>

NextSnapshots == ModificationsSince

SpecSnapshots == InitSnapshots /\ [][NextSnapshots]_vars

(***************************************************************************)
(* C36: modifications_since.                                               *)
(***************************************************************************)
\* the elements of a list
Range(s) == {s[i] : i \in 1..Len(s)}

\* the paths of the files of a snapshot, relative to its folder
RelPathsOf(snap) == {strip_prefix(snap.files[i].path, snap.path) : i \in 1..Len(snap.files)}

\* the hash a snapshot has for a relative path
HashOf(snap, rel) ==
    snap.files[CHOOSE i \in 1..Len(snap.files) :
                   strip_prefix(snap.files[i].path, snap.path) = rel].hash

\* the relative path matches a pattern of the exclude list
MatchesExclude(exclude, rel) == to_str(rel) # <<>> /\ Excluded(exclude, rel)

\* ascending, no element twice
Ascending(s) == \A i \in 1..Len(s), j \in 1..Len(s) : i < j => StringLess(s[i], s[j])

\* what the claim says a list is, given the paths the list is drawn from
AsStated(list, paths) ==
    /\ Range(list) = {rel \in paths : ~MatchesExclude(snapshots.exclude, rel)}
    /\ Ascending(list)

\* the same, without the paths that are no valid UTF-8
AsReturned(list, paths) ==
    /\ Range(list) = {rel \in paths : /\ to_str(rel) # <<>>
                                      /\ ~MatchesExclude(snapshots.exclude, rel)}
    /\ Ascending(list)

\* the paths in self and not in other
AddedPaths == RelPathsOf(snapshots.self) \ RelPathsOf(snapshots.other)

\* the paths in other and not in self
RemovedPaths == RelPathsOf(snapshots.other) \ RelPathsOf(snapshots.self)

\* the paths in both, with different hashes
UpdatedPaths ==
    {rel \in RelPathsOf(snapshots.self) \cap RelPathsOf(snapshots.other) :
        HashOf(snapshots.self, rel) # HashOf(snapshots.other, rel)}

\* no path is in two of the lists
Disjoint(m) ==
    /\ Range(m.added) \cap Range(m.removed) = {}
    /\ Range(m.added) \cap Range(m.updated) = {}
    /\ Range(m.removed) \cap Range(m.updated) = {}

\* C36: for two snapshots of different folders modifications_since panics;
\* for two snapshots of one folder, added is the relative paths that are in
\* self and not in other, removed those in other and not in self, updated
\* those in both with different hashes, each without the paths that are no
\* valid UTF-8 and without the paths that match an exclude pattern, each
\* ascending, and no path is in two of the lists.
C36_ModificationsSince ==
    modifications # NotCalled =>
        IF snapshots.self.path # snapshots.other.path
        THEN modifications = Panic
        ELSE /\ modifications.end = "return"
             /\ AsReturned(modifications.added, AddedPaths)
             /\ AsReturned(modifications.removed, RemovedPaths)
             /\ AsReturned(modifications.updated, UpdatedPaths)
             /\ Disjoint(modifications)

\* two files were added, self lists them in descending order and added has
\* them in ascending order
C36_Witness ==
    /\ modifications.end = "return"
    /\ Len(modifications.added) = 2
    /\ Len(snapshots.self.files) = 2
    /\ StringLess(modifications.added[1], modifications.added[2])
    /\ strip_prefix(snapshots.self.files[1].path, snapshots.self.path)
           = modifications.added[2]

\* a path was excluded from removed and another path is reported as updated
C36_WitnessExcluded ==
    /\ modifications.end = "return"
    /\ snapshots.exclude # <<>>
    /\ \E rel \in RemovedPaths : MatchesExclude(snapshots.exclude, rel)
    /\ modifications.removed = <<>>
    /\ Len(modifications.updated) = 1

\* C36 as stated: the lists hold every path of their kind that matches no
\* exclude pattern, valid UTF-8 or not.
C36_AsStated ==
    modifications # NotCalled =>
        IF snapshots.self.path # snapshots.other.path
        THEN modifications = Panic
        ELSE /\ modifications.end = "return"
             /\ AsStated(modifications.added, AddedPaths)
             /\ AsStated(modifications.removed, RemovedPaths)
             /\ AsStated(modifications.updated, UpdatedPaths)
             /\ Disjoint(modifications)

(***************************************************************************)
(* The SVC_USER and SVC_GROUP metafiles of a package (tests/utils/fs.rs).  *)
(***************************************************************************)
\* the two metafiles, in the order the function looks at them
Metafiles == <<"SVC_USER", "SVC_GROUP">>

\* what a fixture puts into a metafile
FixtureContents == {"hab", "root"}

\* users::get_current_username / get_current_groupname: the name found
CurrentName(metafile) == IF metafile = "SVC_USER" THEN "tester" ELSE "testers"

\* what is at the path of a metafile
Missing == [type |-> "missing", content |-> ""]

Regular(content) == [type |-> "file", content |-> content]

NotAFile == [type |-> "dir", content |-> ""]

\* the package directories of the fixtures
PackageDirs ==
    [{Metafiles[i] : i \in 1..Len(Metafiles)}
        -> {Missing, NotAFile} \cup {Regular(c) : c \in FixtureContents}]

\* Path::is_file
is_file(d, metafile) == d[metafile].type = "file"

\* the test that decides whether a default is written: either metafile is
\* missing
NeedsDefault_EitherMissing(d, metafile) ==
    \E i \in 1..Len(Metafiles) : ~is_file(d, Metafiles[i])

\* if !svc_user_metafile.is_file() / if !svc_group_metafile.is_file()
NeedsDefault(d, metafile) == ~is_file(d, metafile)

\* write_metafile: File::create fails (always on a directory), or it creates
\* or truncates the file and write_all fails or writes the content
write_metafile(d, metafile, content) ==
    {[pkg |-> d, res |-> "CreateError"]}
    \cup (IF d[metafile].type = "dir"
          THEN {}
          ELSE {[pkg |-> [d EXCEPT ![metafile] = Regular("")], res |-> "WriteError"],
                [pkg |-> [d EXCEPT ![metafile] = Regular(content)], res |-> "Ok"]})

\* one of the two if statements: the outcomes of its body, or Ok untouched;
\* the lookup of the name returns Err, Ok(None) or Ok(Some(name))
Default(d, metafile) ==
    IF NeedsDefault(d, metafile)
    THEN {[pkg |-> d, res |-> "LookupError"], [pkg |-> d, res |-> "NoNameError"]}
         \cup write_metafile(d, metafile, CurrentName(metafile))
    ELSE {[pkg |-> d, res |-> "Ok"]}

\* write_default_svc_user_and_group_metafiles: the second if is reached only
\* when the first did not return an error
write_default_svc_user_and_group_metafiles(d) ==
    UNION {IF first.res = "Ok"
           THEN Default(first.pkg, Metafiles[2])
           ELSE {first} : first \in Default(d, Metafiles[1])}

\* copy_dir, one entry of the source directory: a file is copied over the
\* destination, a directory is created at the destination
copy_entry(d, fixture, metafile) ==
    CASE fixture[metafile].type = "missing" -> [pkg |-> d, res |-> "Ok"]
      [] fixture[metafile].type = "file" ->
            IF d[metafile].type = "dir"
            THEN [pkg |-> d, res |-> "CopyError"]
            ELSE [pkg |-> [d EXCEPT ![metafile] = fixture[metafile]], res |-> "Ok"]
      [] OTHER ->
            IF d[metafile].type = "file"
            THEN [pkg |-> d, res |-> "CreateDirError"]
            ELSE [pkg |-> [d EXCEPT ![metafile] = NotAFile], res |-> "Ok"]

\* copy_dir of the fixture's package directory, its entries in the order
\* read_dir yields them; the first error ends it
copy_dir(d, fixture, order) ==
    LET first == copy_entry(d, fixture, order[1])
    IN  IF first.res # "Ok" THEN first ELSE copy_entry(first.pkg, fixture, order[2])

\* a hab root without the package
InitPkg ==
    /\ CacheIdle
    /\ PortsIdle
    /\ SnapshotsIdle
    /\ pkg = [m \in {Metafiles[i] : i \in 1..Len(Metafiles)} |-> Missing]
    /\ pkgPre = pkg
    /\ pkgLast = [op |-> "none", res |-> "Ok"]

\* copy_dir(&expanded_fixture_dir, &hab_pkg_path)
CopyDir(fixture, order) ==
    /\ pkgPre' = pkg
    /\ LET out == copy_dir(pkg, fixture, order)
       IN  /\ pkg' = out.pkg
           /\ pkgLast' = [op |-> "copy_dir", res |-> out.res]
    /\ UNCHANGED <<cacheVars, portVars, snapshotVars>>

\* write_default_svc_user_and_group_metafiles(hab_root, origin, name)
WriteDefaultSvcUserAndGroupMetafiles ==
    /\ pkgPre' = pkg
    /\ \E out \in write_default_svc_user_and_group_metafiles(pkg) :
           /\ pkg' = out.pkg
           /\ pkgLast' = [op |-> "write_default_svc_user_and_group_metafiles",
                          res |-> out.res]
    /\ UNCHANGED <<cacheVars, portVars, snapshotVars>>

NextPkg ==
    \/ \E fixture \in PackageDirs, order \in {Metafiles, <<Metafiles[2], Metafiles[1]>>} :
           CopyDir(fixture, order)
    \/ WriteDefaultSvcUserAndGroupMetafiles

SpecPkg == InitPkg /\ [][NextPkg]_vars

(***************************************************************************)
(* C37: default metafiles.                                                 *)
(***************************************************************************)
\* the last call was write_default_svc_user_and_group_metafiles
WroteDefaults == pkgLast.op = "write_default_svc_user_and_group_metafiles"

====
